---- MODULE Spec2Model ----
(***************************************************************************)
(* KHC invitation automation: the invitation ledger, its persistence, the *)
(* statistics read side and the rate-limited dispatch loops of the script *)
(* variants.                                                               *)
(*                                                                         *)
(*   SpecLedger : invite_manager (JSON ledger keyed by username),          *)
(*                src/scripts/search_and_invite.js lines 78-311            *)
(*   SpecMgr    : InviteManager over Octokit, src/scripts/inviteManager.js *)
(*   SpecFollow : inviteUser / handleSponsorInvitations of                 *)
(*                src/scripts/inviteFollowers.js and inviteFollowers.mjs   *)
(*   SpecBreaker : the same dispatch on a discovery result long enough to  *)
(*                 reach MAX_FAILED_INVITES                                *)
(*   SpecDiscover: the paginated discovery functions of the two scripts    *)
(*   SpecBoot    : inviteManager.js main and the inviteFollowers scripts   *)
(*                 from process start, with the environment checks         *)
(*   SpecDiscoverFair: SpecDiscover with the loops taking their turns      *)
(*   SpecRace    : two invite_manager instances on one ledger file         *)
(*   SpecFollowRuns: inviteFollowers.js run again on the log it left       *)
(*   SpecClean   : cleanupLogFile of inviteFollowers.mjs                   *)
(*   SpecAppend  : appendToLog and the log loop of inviteFollowers.js      *)
(*   SpecSearch  : searchAndInviteUsers of search_and_invite.js            *)
(*                                                                         *)
(* Each specification moves only the variables of its own variant.         *)
(***************************************************************************)
EXTENDS Integers, Sequences, FiniteSets, TLC

\* ------------------------------------------------------------------ bounds
\* new Date() is a counter; every call that reads it advances it.
MaxClock == 3
\* Lines of the plain-text invitation log read by importFromLog.
MaxLogLines == 2

\* --------------------------------------------------------------- universes
\* GitHub logins.  "constructor" is a well-formed login and also the name of
\* a property every plain JavaScript object inherits from Object.prototype.
Users == {"alice", "bob", "constructor"}
\* Names found by the `in` operator on any plain object ({} or JSON.parse
\* output), restricted to Users.
ObjectPrototypeKeys == {"constructor"}
\* Source terms passed to trackInvite.  "" is its default parameter value.
Terms == {"", "search-X"}

VARIABLES
    invitedUsers,   \* InviteManager.invitedUsers (in memory, JSON ledger variant)
    ledgerFile,     \* invited_users.json
    logFile,        \* invitation_log.txt, a sequence of lines
    lpc,            \* "down": no process; "up": a manager has been constructed
    clock,          \* new Date()
    lastCall,       \* the last call made on the manager and what it returned
    savedLedger,    \* history: the ledger handed to the last completed save
    firstTrack,     \* history: user -> the (term, time) of its first trackInvite
    \* --- inviteManager.js
    mInvited,       \* this.invitedUsers: a Set, as the sequence of its insertions
    mStats,         \* this.stats
    mUsersFile,     \* data/invited_users.json
    mStatsFile,     \* data/invitation_stats.json
    mpc,            \* "down", "ready" (initialized), "loop" (inside inviteUsers)
    mRun,           \* processes started so far
    mQueue,         \* inviteUsers: the users of searchUsers not yet visited
    mInvitedCount,  \* inviteUsers: invitedCount
    mMaxInvites,    \* inviteUsers: maxInvites
    mSent,          \* history: run -> logins createInvitation was called for
    mTrue,          \* history: run -> logins inviteUser returned true for
    mFinished,      \* history: the runs whose inviteUsers loop ran to its end
    mItems,         \* what octokit.search.users returns for the search term
    mLast,          \* history: the last inviteUser call
    mEnv,           \* process.env: are GITHUB_TOKEN and GITHUB_ORG set (non-empty)
    mExit,          \* how the last process ended: exit code and message printed
    mApi            \* history: an Octokit request has been made

ledgerVars == <<invitedUsers, ledgerFile, logFile, lpc, clock, lastCall,
                savedLedger, firstTrack>>

mgrVars == <<mInvited, mStats, mUsersFile, mStatsFile, mpc, mRun, mQueue,
             mInvitedCount, mMaxInvites, mSent, mTrue, mFinished, mItems, mLast,
             mEnv, mExit, mApi>>


\* ------------------------------------------------------- JavaScript objects
\* A plain object is the sequence of its own properties in insertion order.
HasOwn(obj, k) == \E i \in 1..Len(obj) : obj[i].name = k

\* k in obj: own properties and those inherited from Object.prototype.
InOperator(obj, k) == HasOwn(obj, k) \/ k \in ObjectPrototypeKeys

IndexOf(obj, k) == CHOOSE i \in 1..Len(obj) : obj[i].name = k

\* obj[k] = v
PutProperty(obj, k, v) ==
    LET e == [name |-> k, invited_at |-> v.invited_at, search_term |-> v.search_term]
    IN  IF HasOwn(obj, k) THEN [obj EXCEPT ![IndexOf(obj, k)] = e]
        ELSE Append(obj, e)

\* Object.entries(obj) as a set
EntrySet(obj) == {obj[i] : i \in 1..Len(obj)}

OwnKeys(obj) == {obj[i].name : i \in 1..Len(obj)}

\* ------------------------------------------------------------ ledger values
\* shape "ok": the object has invited_users and total_invites; shape
\* "noFields": the object parsed from the text {} (no field present).
\* last_updated is written by every operation and read by none of them
\* (only printed by the report); it is left out.
DefaultLedger(now) ==
    [shape |-> "ok", invited_users |-> <<>>, total_invites |-> 0]

NoFieldsLedger ==
    [shape |-> "noFields", invited_users |-> <<>>, total_invites |-> 0]

\* No manager in memory.
NoLedger ==
    [shape |-> "none", invited_users |-> <<>>, total_invites |-> 0]

\* ------------------------------------------------------------------- files
MissingFile == [kind |-> "missing", shape |-> "none", members |-> <<>>,
                total_invites |-> 0]
\* Text that JSON.parse rejects.
GarbageFile == [kind |-> "garbage", shape |-> "none", members |-> <<>>,
                total_invites |-> 0]
\* What a write leaves when the process stops after the file was opened
\* (truncated) and before all bytes were written.
PartialFile == [kind |-> "partial", shape |-> "none", members |-> <<>>,
                total_invites |-> 0]
\* The text {} : parseable, none of the expected fields.
NoFieldsFile == [kind |-> "json", shape |-> "noFields", members |-> <<>>,
                 total_invites |-> 0]

\* Mutant of Stringify: the search_term of every member is left out.
Stringify_OmitsSearchTerm(l) ==
    [kind |-> "json", shape |-> l.shape,
     members |-> [i \in 1..Len(l.invited_users) |->
                    <<l.invited_users[i].name, l.invited_users[i].invited_at, "">>],
     total_invites |-> l.total_invites]

\* JSON.stringify(this.invitedUsers, null, 2): the members of invited_users
\* are written in property order as  "name": {"invited_at":..,"search_term":..}
Stringify(l) ==
    [kind |-> "json", shape |-> l.shape,
     members |-> [i \in 1..Len(l.invited_users) |->
                    <<l.invited_users[i].name, l.invited_users[i].invited_at,
                      l.invited_users[i].search_term>>],
     total_invites |-> l.total_invites]

\* JSON.parse builds the object member by member; a repeated name overwrites.
RECURSIVE ParseMembers(_)
ParseMembers(ms) ==
    IF ms = <<>> THEN <<>>
    ELSE LET front == ParseMembers(SubSeq(ms, 1, Len(ms) - 1))
             m     == ms[Len(ms)]
         IN  PutProperty(front, m[1], [invited_at |-> m[2], search_term |-> m[3]])

JsonParses(f) == f.kind = "json"

JsonParse(f) ==
    [shape |-> f.shape, invited_users |-> ParseMembers(f.members),
     total_invites |-> f.total_invites]

\* ------------------------------------------------------------ the log file
\* A line  <timestamp> - <search term> - <username>  that importFromLog's
\* regular expression matches, and a line it does not match.
LogLine(term, user) == [matches |-> TRUE, ts |-> 0, term |-> term, user |-> user]
JunkLine == [matches |-> FALSE, ts |-> 0, term |-> "", user |-> ""]

LogLineChoices ==
    {JunkLine, LogLine("unknown", "alice"), LogLine("search-X", "constructor")}

RECURSIVE SeqsUpTo(_, _)
SeqsUpTo(S, n) ==
    IF n = 0 THEN {<<>>}
    ELSE LET shorter == SeqsUpTo(S, n - 1)
         IN  shorter \cup {Append(q, x) : q \in {r \in shorter : Len(r) = n - 1}, x \in S}

\* ------------------------------------------------- InviteManager (ledger)
\* loadInvitedUsers: the parsed text as it is, or the default structure when
\* reading or parsing throws.
LoadInvitedUsers(f, now) ==
    IF JsonParses(f) THEN JsonParse(f) ELSE DefaultLedger(now)

\* isUserInvited: username in this.invitedUsers.invited_users.  With
\* invited_users undefined the `in` operator throws a TypeError.
IsUserInvitedThrows(l) == l.shape # "ok"

\* Mutant of IsUserInvited: the guard never finds the user.
IsUserInvited_Never(l, u) == FALSE

IsUserInvited(l, u) == InOperator(l.invited_users, u)

Call(op, ret, threw, mutated, fresh) ==
    [op |-> op, ret |-> ret, threw |-> threw,
     mutated |-> mutated, fresh |-> fresh,
     stats |-> [totalInvites |-> 0, bySearchTerm |-> [x \in {} |-> 0]]]

NoCall == Call("none", FALSE, FALSE, FALSE, FALSE)

\* How a write of invited_users.json ends: completed; refused with an error
\* before the file is opened; or the process stops after the file was
\* truncated and before the text was written out.
SaveOutcomes == {"ok", "error", "crash"}

\* saveInvitedUsers: fs.promises.writeFile(path, JSON.stringify(...)) writes
\* in place.
SaveInvitedUsers(l, out) ==
    CASE out = "ok"    -> Stringify(l)
      [] out = "error" -> ledgerFile
      [] out = "crash" -> PartialFile

\* The tracked entry of trackInvite
TrackedLedger(l, u, t, now) ==
    [l EXCEPT !.invited_users =
                  PutProperty(@, u, [invited_at |-> now, search_term |-> t]),
              !.total_invites = @ + 1]

\* new InviteManager()
Construct ==
    /\ lpc = "down"
    /\ lpc' = "up"
    /\ invitedUsers' = LoadInvitedUsers(ledgerFile, clock)
    /\ lastCall' = Call("load", FALSE, FALSE, FALSE, FALSE)
    /\ firstTrack' = [x \in {} |-> 0]
    /\ UNCHANGED <<ledgerFile, logFile, clock, savedLedger>>

\* The process ends; the manager is gone, the files stay.
Exit ==
    /\ lpc = "up"
    /\ lpc' = "down"
    /\ invitedUsers' = NoLedger
    /\ lastCall' = NoCall
    /\ firstTrack' = [x \in {} |-> 0]
    /\ UNCHANGED <<ledgerFile, logFile, clock, savedLedger>>

\* What a save that ended `out` leaves of the process and the history.
AfterSave(l, out) ==
    /\ ledgerFile' = SaveInvitedUsers(l, out)
    /\ savedLedger' = CASE out = "ok"    -> l
                        [] out = "error" -> savedLedger
                        [] out = "crash" -> NoLedger
    /\ lpc' = IF out = "crash" THEN "down" ELSE "up"
    /\ invitedUsers' = IF out = "crash" THEN NoLedger ELSE l

\* trackInvite(username, searchTerm)
TrackInvite(u, t, out) ==
    /\ lpc = "up"
    /\ clock < MaxClock
    /\ LET fresh == ~HasOwn(invitedUsers.invited_users, u) /\ u \notin DOMAIN firstTrack
           ft    == IF fresh THEN firstTrack @@ (u :> [term |-> t, at |-> clock])
                    ELSE firstTrack
       IN
       IF IsUserInvitedThrows(invitedUsers)
       THEN \* TypeError out of isUserInvited
            /\ out = "ok"
            /\ lastCall' = Call("trackInvite", FALSE, TRUE, FALSE, fresh)
            /\ firstTrack' = firstTrack
            /\ UNCHANGED <<invitedUsers, ledgerFile, logFile, lpc, clock, savedLedger>>
       ELSE IF IsUserInvited(invitedUsers, u)
       THEN \* already invited: return false
            /\ out = "ok"
            /\ lastCall' = Call("trackInvite", FALSE, FALSE, FALSE, fresh)
            /\ firstTrack' = ft
            /\ UNCHANGED <<invitedUsers, ledgerFile, logFile, lpc, clock, savedLedger>>
       ELSE LET l == TrackedLedger(invitedUsers, u, t, clock)
            IN  /\ AfterSave(l, out)
                /\ clock' = clock + 1
                /\ lastCall' = IF out = "crash" THEN NoCall
                               ELSE Call("trackInvite", out = "ok", out = "error",
                                         TRUE, fresh)
                /\ firstTrack' = IF out = "crash" THEN [x \in {} |-> 0] ELSE ft
                /\ UNCHANGED logFile

\* Mutant of ImportLines: every matching line writes its entry, invited or not.
RECURSIVE ImportLines_Overwrites(_, _)
ImportLines_Overwrites(l, lines) ==
    IF lines = <<>> THEN l
    ELSE LET line == Head(lines)
             next == IF line.matches
                     THEN [l EXCEPT !.invited_users =
                                        PutProperty(@, line.user,
                                            [invited_at |-> line.ts,
                                             search_term |-> line.term]),
                                    !.total_invites = @ + 1]
                     ELSE l
         IN  ImportLines_Overwrites(next, Tail(lines))

\* The loop of importFromLog over the lines, first to last: a matching line
\* whose username is not yet invited adds an entry with the line's timestamp
\* and search term.
RECURSIVE ImportLines(_, _)
ImportLines(l, lines) ==
    IF lines = <<>> THEN l
    ELSE LET line == Head(lines)
             next == IF line.matches /\ ~IsUserInvited(l, line.user)
                     THEN [l EXCEPT !.invited_users =
                                        PutProperty(@, line.user,
                                            [invited_at |-> line.ts,
                                             search_term |-> line.term]),
                                    !.total_invites = @ + 1]
                     ELSE l
         IN  ImportLines(next, Tail(lines))

\* importFromLog(logPath)
ImportFromLog(out) ==
    /\ lpc = "up"
    /\ IF IsUserInvitedThrows(invitedUsers) /\ \E i \in 1..Len(logFile) : logFile[i].matches
       THEN \* TypeError at the first matching line, rethrown by the catch
            /\ out = "ok"
            /\ lastCall' = Call("importFromLog", FALSE, TRUE, FALSE, FALSE)
            /\ UNCHANGED <<invitedUsers, ledgerFile, logFile, lpc, clock, savedLedger,
                           firstTrack>>
       ELSE LET l == ImportLines(invitedUsers, logFile)
            IN  /\ AfterSave(l, out)
                /\ lastCall' = IF out = "crash" THEN NoCall
                               ELSE Call("importFromLog", FALSE, out = "error",
                                         l.invited_users # invitedUsers.invited_users,
                                         FALSE)
                /\ firstTrack' = IF out = "crash" THEN [x \in {} |-> 0] ELSE firstTrack
                /\ UNCHANGED <<logFile, clock>>

\* data.search_term || 'unknown'
TermOrUnknown(t) == IF t = "" THEN "unknown" ELSE t

\* Mutant of CountBySearchTerm: the count is set to 1 instead of incremented.
RECURSIVE CountBySearchTerm_Overwrite(_, _)
CountBySearchTerm_Overwrite(acc, entries) ==
    IF entries = <<>> THEN acc
    ELSE LET k    == TermOrUnknown(Head(entries).search_term)
             next == IF k \in DOMAIN acc THEN [acc EXCEPT ![k] = 1]
                     ELSE acc @@ (k :> 1)
         IN  CountBySearchTerm_Overwrite(next, Tail(entries))

\* The loop of getStatistics over Object.entries(invited_users):
\* stats.bySearchTerm[searchTerm] = (stats.bySearchTerm[searchTerm] || 0) + 1
RECURSIVE CountBySearchTerm(_, _)
CountBySearchTerm(acc, entries) ==
    IF entries = <<>> THEN acc
    ELSE LET k    == TermOrUnknown(Head(entries).search_term)
             next == IF k \in DOMAIN acc THEN [acc EXCEPT ![k] = @ + 1]
                     ELSE acc @@ (k :> 1)
         IN  CountBySearchTerm(next, Tail(entries))

\* getStatistics(): totalInvites and bySearchTerm of the returned object
GetStatistics(l) ==
    [totalInvites |-> l.total_invites,
     bySearchTerm |-> CountBySearchTerm([x \in {} |-> 0], l.invited_users)]

GetStatisticsCall ==
    /\ lpc = "up"
    /\ lastCall' =
         IF invitedUsers.shape # "ok"
         THEN \* Object.entries(undefined) throws
              Call("getStatistics", FALSE, TRUE, FALSE, FALSE)
         ELSE [Call("getStatistics", TRUE, FALSE, FALSE, FALSE)
                 EXCEPT !.stats = GetStatistics(invitedUsers)]
    /\ UNCHANGED <<invitedUsers, ledgerFile, logFile, lpc, clock, savedLedger, firstTrack>>

\* ================================ inviteFollowers.js / inviteFollowers.mjs
\* const MAX_FAILED_INVITES = 20
MAX_FAILED_INVITES == 20
\* canSendMoreInvites: return invitationStats.last24Hours < 50
DailyLimit == 50
\* canSendMoreInvites: oneDay.  Date.now() is counted in hours.
OneDay == 24

\* Date.now() when the script starts, the step by which it advances between
\* two calls, and its last value.
StartHour == 48
TickHours == 12
MaxHour == 72
\* Candidates beyond MAX_FAILED_INVITES in the long discovery result.
ExtraCandidates == 2

\* The account whose followers are scanned.
SourceUsername == "octocat"
\* Discovery results.  Nothing de-duplicates them before the dispatch.
FollowerLists == {<<"alice", "bob", "carol">>, <<"bob", "bob">>}
\* What getOrgMembers returns.
MemberLists == {<<>>, <<"bob">>}
\* A line of invitation_log.txt: `${timestamp} - ${sourceUsername} - ${username}`
LogEntry(at, source, user) == [at |-> at, source |-> source, user |-> user]
\* invitation_log.txt at the start: empty, or one line left by a scan of
\* alice's followers that invited carol.
StartLogs == {<<>>, <<LogEntry(0, "alice", "carol")>>}
\* A discovery result long enough for MAX_FAILED_INVITES failures.
LongList == [i \in 1..(MAX_FAILED_INVITES + ExtraCandidates) |-> "dave"]

\* let invitationStats = { totalInvites: 0, last24Hours: 0, lastInviteTime: 0,
\*                         pendingInvites: 0 }
ZeroStats == [totalInvites |-> 0, last24Hours |-> 0, lastInviteTime |-> 0,
              pendingInvites |-> 0]
\* Stats left by earlier runs that sent n invitations, the last one
\* TickHours before this start.
StatsAfter(n) == [totalInvites |-> n, last24Hours |-> n,
                  lastInviteTime |-> StartHour - TickHours, pendingInvites |-> n]

\* invitation_stats.json: absent, written by updateStats, or cut short by a
\* write that did not complete.
StatsMissing == [kind |-> "missing", stats |-> ZeroStats]
StatsPartial == [kind |-> "partial", stats |-> ZeroStats]
\* JSON.stringify(invitationStats, null, 2)
StringifyInvitationStats(st) == [kind |-> "json", stats |-> st]
\* if (fs.existsSync(FILE)) try { invitationStats = JSON.parse(...) } catch {}
LoadStats(f) == IF f.kind = "json" THEN f.stats ELSE ZeroStats

VARIABLES
    fVariant,            \* "js": inviteFollowers.js, "mjs": inviteFollowers.mjs
    invitationStats,     \* let invitationStats
    statsFile,           \* invitation_stats.json
    failedInvitesCount,  \* let failedInvitesCount
    now,                 \* Date.now(), in hours
    followers,           \* the discovery result handed to the dispatch
    members,             \* what getOrgMembers returned
    invitationLog,       \* invitation_log.txt
    newFollowers,        \* the candidates of the dispatch loop not yet visited
    forceInvite,         \* the answer to the force prompt
    previouslyInvited,   \* the set read from the log by the dispatch
    fpc,                 \* "boot", "start", "loop", "done", "cancelled", "exited"
    fPosted,             \* history: logins of the POST /invitations requests
    fPosts,              \* history: number of POST /invitations requests
    fClean,              \* history: every inviteUser call so far succeeded
    fRateLimited,        \* history: POSTs answered with a rate limit error
    fOtherFailed,        \* history: POSTs that failed in another way
    fLast,               \* history: the last inviteUser call
    fSentAt,             \* history: hour -> invitations accepted at that hour
    fEnv,                \* process.env: are GITHUB_TOKEN and GITHUB_ORG set (non-empty)
    fExit,               \* the argument of process.exit, "none" before any call
    fApi                 \* history: a request to api.github.com has been made

followVars == <<fVariant, invitationStats, statsFile, failedInvitesCount, now,
                followers, members, invitationLog, newFollowers, forceInvite,
                previouslyInvited, fpc, fPosted, fPosts, fClean, fRateLimited,
                fOtherFailed, fLast, fSentAt, fEnv, fExit, fApi>>

\* members.includes(user)
Includes(list, u) == \E i \in 1..Len(list) : list[i] = u

\* js getPreviouslyInvitedUsers: line.split(' - ')[1];
\* mjs handleSponsorInvitations:  line.split(' - ')[2]
PreviouslyInvited(variant, log) ==
    IF variant = "js" THEN {log[i].source : i \in 1..Len(log)}
    ELSE {log[i].user : i \in 1..Len(log)}

\* Mutant of NewFollowers: the filter without the membership test.
RECURSIVE NewFollowers_IgnoreMembers(_, _, _)
NewFollowers_IgnoreMembers(list, mem, prev) ==
    IF list = <<>> THEN <<>>
    ELSE IF Head(list) \in prev
         THEN NewFollowers_IgnoreMembers(Tail(list), mem, prev)
         ELSE <<Head(list)>> \o NewFollowers_IgnoreMembers(Tail(list), mem, prev)

\* followers.filter(user => !members.includes(user) && !previouslyInvited.has(user))
RECURSIVE NewFollowers(_, _, _)
NewFollowers(list, mem, prev) ==
    IF list = <<>> THEN <<>>
    ELSE IF Includes(mem, Head(list)) \/ Head(list) \in prev
         THEN NewFollowers(Tail(list), mem, prev)
         ELSE <<Head(list)>> \o NewFollowers(Tail(list), mem, prev)

\* canSendMoreInvites, its effect on invitationStats
StatsAfterCheck(st, t) ==
    IF t - st.lastInviteTime > OneDay THEN [st EXCEPT !.last24Hours = 0] ELSE st

\* Mutant of CanSendMoreInvites: last24Hours <= 50
CanSendMoreInvites_AtMost(st, t) == StatsAfterCheck(st, t).last24Hours <= DailyLimit

\* canSendMoreInvites, its result
CanSendMoreInvites(st, t) == StatsAfterCheck(st, t).last24Hours < DailyLimit

\* Mutant of FailureLimitReached: failedInvitesCount > MAX_FAILED_INVITES
FailureLimitReached_Above(n) == n > MAX_FAILED_INVITES

\* if (failedInvitesCount >= MAX_FAILED_INVITES)
FailureLimitReached(n) == n >= MAX_FAILED_INVITES

\* What one inviteUser call meets once it is past the budget check.
\*   member, pending : js only, the membership / pending-invitation lookups
\*   noUser          : getUserId returns null
\*   ok              : POST accepted, stats and log written
\*   okStatsFail     : POST accepted, updateStats throws
\*   okLogReplaced   : js only, appendToLog falls back to renaming its
\*                     temporary file over the log
\*   okLogFail       : POST accepted, the log write throws (js: three times)
\*   rateLimit, alreadyInvited, validation : POST refused with that message
\*   network         : fetch throws
JsOutcomes == {"member", "pending", "noUser", "ok", "okStatsFail", "okLogReplaced",
               "okLogFail", "rateLimit", "validation", "network"}
MjsOutcomes == {"noUser", "ok", "okStatsFail", "okLogFail", "rateLimit",
                "alreadyInvited", "validation", "network"}
Outcomes(variant) == IF variant = "js" THEN JsOutcomes ELSE MjsOutcomes
\* The outcomes met on the long discovery result.
BreakerOutcomes == {"ok", "rateLimit", "validation", "network"}

\* fetch(`.../orgs/${targetOrg}/invitations`, { method: 'POST', ... }) is called
SendsPost(out) == out \notin {"member", "pending", "noUser"}
\* res.ok
Accepted(out) == out \in {"ok", "okStatsFail", "okLogReplaced", "okLogFail"}
\* failedInvitesCount++ : js in the else branch and in the catch of the POST
\* try block, mjs only under error.message.includes('rate limit')
CountsAsFailure(variant, out) ==
    IF variant = "js"
    THEN out \in {"rateLimit", "validation", "network", "okStatsFail"}
    ELSE out = "rateLimit"
\* inviteUser's return value
Returns(variant, out) ==
    IF variant = "js" THEN out \in {"ok", "okLogReplaced", "okLogFail"}
    ELSE out = "ok"

\* invitationStats.totalInvites++ ... invitationStats.pendingInvites++
BumpedStats(st, t) ==
    [totalInvites |-> st.totalInvites + 1, last24Hours |-> st.last24Hours + 1,
     lastInviteTime |-> t, pendingInvites |-> st.pendingInvites + 1]

\* No inviteUser call made yet.  count, within: last24Hours and whether the
\* last invitation is at most a day old when the call begins; checked:
\* canSendMoreInvites was called; counter: last24Hours as it compared it
\* with the limit; sent24: the invitations accepted in the 24 hours before.
NoInvite == [user |-> "", out |-> "none", ret |-> FALSE, refused |-> FALSE,
             posted |-> FALSE, count |-> 0, within |-> FALSE, force |-> FALSE,
             checked |-> FALSE, counter |-> 0, sent24 |-> 0]

\* The invitations behind a stats file found at the start: all of them sent
\* at its lastInviteTime.
SentBefore(f) ==
    IF f.kind = "json" /\ f.stats.totalInvites > 0
    THEN (f.stats.lastInviteTime :> f.stats.totalInvites)
    ELSE [h \in {} |-> 0]

RECURSIVE SumOver(_, _)
SumOver(f, hours) ==
    IF hours = {} THEN 0
    ELSE LET h == CHOOSE x \in hours : TRUE
         IN  f[h] + SumOver(f, hours \ {h})

\* The invitations accepted from t - OneDay to t, both included.
SentWithinDay(sentAt, t) ==
    SumOver(sentAt, {h \in DOMAIN sentAt : t - h <= OneDay})

\* The dispatch up to its loop: js main, mjs handleSponsorInvitations.
\* proceed: the prompts are answered so that the loop is entered (mjs: a
\* valid team whose id is found, then "yes"; js: "yes"); force: the answer
\* to the force prompt.
Dispatch(proceed, force) ==
    /\ fpc = "start"
    /\ LET prev == PreviouslyInvited(fVariant, invitationLog)
           nf == NewFollowers(followers, members, prev)
       IN
       /\ previouslyInvited' = prev
       /\ IF followers = <<>> \/ nf = <<>> \/ ~proceed
          THEN fpc' = "cancelled" /\ newFollowers' = <<>> /\ forceInvite' = FALSE
          ELSE fpc' = "loop" /\ newFollowers' = nf /\ forceInvite' = force
    /\ fApi' = TRUE
    /\ UNCHANGED <<fVariant, invitationStats, statsFile, failedInvitesCount, now,
                   followers, members, invitationLog, fPosted, fPosts, fClean,
                   fRateLimited, fOtherFailed, fLast, fSentAt, fEnv, fExit>>

\* One turn of the dispatch loop: inviteUser(user, sourceUsername, targetOrg,
\* forceInvite).  torn: a failing updateStats left the file cut short.
\* At the failure limit js runs commitAndPushChanges (git only) and both
\* variants end the process.
InviteUser(out, torn) ==
    /\ fpc = "loop"
    /\ newFollowers # <<>>
    /\ out \in Outcomes(fVariant)
    /\ torn => out = "okStatsFail"
    /\ LET u == Head(newFollowers)
           refused == ~forceInvite /\ ~CanSendMoreInvites(invitationStats, now)
           st0 == IF forceInvite THEN invitationStats
                  ELSE StatsAfterCheck(invitationStats, now)
           posted == ~refused /\ SendsPost(out)
           accepted == ~refused /\ Accepted(out)
           counted == ~refused /\ CountsAsFailure(fVariant, out)
           ret == ~refused /\ Returns(fVariant, out)
           failed == IF counted THEN failedInvitesCount + 1 ELSE failedInvitesCount
           st1 == IF accepted THEN BumpedStats(st0, now) ELSE st0
           entry == LogEntry(now, SourceUsername, u)
       IN
       /\ invitationStats' = st1
       /\ statsFile' = IF accepted /\ out # "okStatsFail"
                       THEN StringifyInvitationStats(st1)
                       ELSE IF accepted /\ torn THEN StatsPartial ELSE statsFile
       /\ invitationLog' = IF accepted /\ out = "ok" THEN Append(invitationLog, entry)
                           ELSE IF accepted /\ out = "okLogReplaced" THEN <<entry>>
                           ELSE invitationLog
       /\ failedInvitesCount' = failed
       /\ newFollowers' = Tail(newFollowers)
       /\ fpc' = IF counted /\ FailureLimitReached(failed) THEN "exited" ELSE "loop"
       /\ fPosted' = IF posted THEN fPosted \cup {u} ELSE fPosted
       /\ fPosts' = IF posted THEN fPosts + 1 ELSE fPosts
       /\ fClean' = (fClean /\ ~refused /\ out = "ok")
       /\ fRateLimited' = IF posted /\ out = "rateLimit"
                          THEN fRateLimited + 1 ELSE fRateLimited
       /\ fOtherFailed' = IF posted /\ ~ret /\ out # "rateLimit"
                          THEN fOtherFailed + 1 ELSE fOtherFailed
       /\ fLast' = [user |-> u, out |-> IF refused THEN "refused" ELSE out,
                    ret |-> ret, refused |-> refused, posted |-> posted,
                    count |-> invitationStats.last24Hours,
                    within |-> (now - invitationStats.lastInviteTime <= OneDay),
                    force |-> forceInvite, checked |-> ~forceInvite,
                    counter |-> st0.last24Hours,
                    sent24 |-> SentWithinDay(fSentAt, now)]
       /\ fSentAt' = IF accepted
                     THEN IF now \in DOMAIN fSentAt
                          THEN [fSentAt EXCEPT ![now] = @ + 1]
                          ELSE fSentAt @@ (now :> 1)
                     ELSE fSentAt
       /\ fExit' = IF counted /\ FailureLimitReached(failed) THEN "0" ELSE fExit
       /\ fApi' = (fApi \/ posted)
    /\ UNCHANGED <<fVariant, now, followers, members, forceInvite, previouslyInvited,
                   fEnv>>

\* for (const user of newFollowers) { ... } has visited every candidate.
FinishLoop ==
    /\ fpc = "loop"
    /\ newFollowers = <<>>
    /\ fpc' = "done"
    /\ UNCHANGED <<fVariant, invitationStats, statsFile, failedInvitesCount, now,
                   followers, members, invitationLog, newFollowers, forceInvite,
                   previouslyInvited, fPosted, fPosts, fClean, fRateLimited,
                   fOtherFailed, fLast, fSentAt, fEnv, fExit, fApi>>

\* Time passes (prompts, DELAY_BETWEEN_INVITES, the requests themselves).
Tick ==
    /\ fpc \in {"start", "loop"}
    /\ now + TickHours <= MaxHour
    /\ now' = now + TickHours
    /\ UNCHANGED <<fVariant, invitationStats, statsFile, failedInvitesCount,
                   followers, members, invitationLog, newFollowers, forceInvite,
                   previouslyInvited, fpc, fPosted, fPosts, fClean, fRateLimited,
                   fOtherFailed, fLast, fSentAt, fEnv, fExit, fApi>>

\* if (!GITHUB_TOKEN)
TokenMissing(env) == ~env.token

\* The top-level statements of the script up to "const headers": the stats
\* and the members file are loaded (file operations only), then the token
\* is checked: console.error(...) twice and process.exit(1).
LoadScript ==
    /\ fpc = "boot"
    /\ IF TokenMissing(fEnv)
       THEN fpc' = "exited" /\ fExit' = "1"
       ELSE fpc' = "start" /\ fExit' = fExit
    /\ UNCHANGED <<fVariant, invitationStats, statsFile, failedInvitesCount, now,
                   followers, members, invitationLog, newFollowers, forceInvite,
                   previouslyInvited, fPosted, fPosts, fClean, fRateLimited,
                   fOtherFailed, fLast, fSentAt, fEnv, fApi>>

\* The script's state when it starts to run (pc) or is about to dispatch.
FollowAt(pc, env) ==
    /\ fVariant \in {"js", "mjs"}
    /\ invitationStats = LoadStats(statsFile)
    /\ failedInvitesCount = 0
    /\ now = StartHour
    /\ newFollowers = <<>>
    /\ forceInvite = FALSE
    /\ previouslyInvited = {}
    /\ fpc = pc
    /\ fPosted = {}
    /\ fPosts = 0
    /\ fClean = TRUE
    /\ fRateLimited = 0
    /\ fOtherFailed = 0
    /\ fLast = NoInvite
    /\ fSentAt = SentBefore(statsFile)
    /\ fEnv = env
    /\ fExit = "none"
    /\ fApi = FALSE

\* The script has loaded its stats and is about to dispatch.
FollowStarted == FollowAt("start", [token |-> TRUE, org |-> TRUE])

InitFollow ==
    /\ statsFile \in {StatsMissing, StringifyInvitationStats(StatsAfter(DailyLimit - 1)),
                      StringifyInvitationStats(StatsAfter(DailyLimit))}
    /\ followers \in FollowerLists
    /\ members \in MemberLists
    /\ invitationLog \in StartLogs
    /\ FollowStarted

\* The script is started, with or without a token and an organization
\* name in the environment (const ORG is a literal of the script).
InitFollowBoot ==
    /\ statsFile \in {StatsMissing, StringifyInvitationStats(StatsAfter(DailyLimit - 1)),
                      StringifyInvitationStats(StatsAfter(DailyLimit))}
    /\ followers \in FollowerLists
    /\ members \in MemberLists
    /\ invitationLog \in StartLogs
    /\ \E env \in [token : BOOLEAN, org : BOOLEAN] : FollowAt("boot", env)

InitBreaker ==
    /\ statsFile = StatsMissing
    /\ followers = LongList
    /\ members = <<>>
    /\ invitationLog = <<>>
    /\ FollowStarted

\* Neither inviteFollowers script is running.
FollowQuiet ==
    /\ fVariant = "js"
    /\ statsFile = StatsMissing
    /\ invitationStats = ZeroStats
    /\ failedInvitesCount = 0
    /\ now = StartHour
    /\ followers = <<>>
    /\ members = <<>>
    /\ invitationLog = <<>>
    /\ newFollowers = <<>>
    /\ forceInvite = FALSE
    /\ previouslyInvited = {}
    /\ fpc = "down"
    /\ fPosted = {}
    /\ fPosts = 0
    /\ fClean = TRUE
    /\ fRateLimited = 0
    /\ fOtherFailed = 0
    /\ fLast = NoInvite
    /\ fSentAt = SentBefore(StatsMissing)
    /\ fEnv = [token |-> TRUE, org |-> TRUE]
    /\ fExit = "none"
    /\ fApi = FALSE

\* ================================================= inviteManager.js
\* Processes started in one behaviour.
MaxRuns == 2
\* maxInvites when the command line gives none: parseInt(argv[4]) || 50
DefaultMaxInvites == 50

\* What octokit.search.users returns, the same at every call.
SearchItems == <<"alice", "bob", "carol">>
MgrTerms == {"search-X", "search-Y"}
\* The answers of the search API met by the runs of one behaviour: three
\* logins, or a page that lists one login twice.
SearchResults == {SearchItems, <<"bob", "bob">>}

\* Mutant of SetHas: the Set never reports a login.
SetHas_Never(set, u) == FALSE

\* this.invitedUsers.has(u)
SetHas(set, u) == \E i \in 1..Len(set) : set[i] = u

\* this.invitedUsers.add(u)
SetAdd(set, u) == IF SetHas(set, u) THEN set ELSE Append(set, u)

SetOf(set) == {set[i] : i \in 1..Len(set)}

RECURSIVE AddAll(_, _)
\* users.forEach(user => this.invitedUsers.add(user))
AddAll(set, users) ==
    IF users = <<>> THEN set ELSE AddAll(SetAdd(set, Head(users)), Tail(users))

\* The stats built by the constructor.
EmptyStats == [shape |-> "ok", totalInvites |-> 0, searchTerms |-> [x \in {} |-> 0]]

\* A file of data/: absent, unparseable, the text {}, or what a save wrote.
MgrMissing  == [kind |-> "missing", shape |-> "none", users |-> <<>>,
                totalInvites |-> 0, searchTerms |-> [x \in {} |-> 0]]
MgrGarbage  == [kind |-> "garbage", shape |-> "none", users |-> <<>>,
                totalInvites |-> 0, searchTerms |-> [x \in {} |-> 0]]
MgrNoFields == [kind |-> "json", shape |-> "noFields", users |-> <<>>,
                totalInvites |-> 0, searchTerms |-> [x \in {} |-> 0]]

\* Mutant of StringifyUsers: JSON.stringify({ users: this.invitedUsers })
\* of a Set writes {"users": {}}, which holds no array.
StringifyUsers_SetAsObject(set) == MgrNoFields

\* JSON.stringify({ users: Array.from(this.invitedUsers) }, null, 2)
StringifyUsers(set) ==
    [kind |-> "json", shape |-> "ok", users |-> [i \in 1..Len(set) |-> set[i]],
     totalInvites |-> 0, searchTerms |-> [x \in {} |-> 0]]

\* JSON.stringify(this.stats, null, 2)
StringifyStats(st) ==
    [kind |-> "json", shape |-> st.shape, users |-> <<>>,
     totalInvites |-> st.totalInvites, searchTerms |-> st.searchTerms]

\* initialize, first try block: does reading, parsing, destructuring
\* { users } and users.forEach complete?
UsersFileLoads(f) == f.kind = "json" /\ f.shape = "ok"

\* initialize, second try block: this.stats = JSON.parse(data) completes for
\* every parseable text, the text {} included.
StatsFileLoads(f) == f.kind = "json"

ParseStats(f) ==
    [shape |-> f.shape, totalInvites |-> f.totalInvites, searchTerms |-> f.searchTerms]

\* searchUsers: users.data.items.filter(user => !this.invitedUsers.has(user.login))
RECURSIVE FilterNew(_, _)
FilterNew(items, set) ==
    IF items = <<>> THEN <<>>
    ELSE IF SetHas(set, Head(items)) THEN FilterNew(Tail(items), set)
         ELSE <<Head(items)>> \o FilterNew(Tail(items), set)

NoRuns == [r \in 1..MaxRuns |-> {}]

\* No inviteUser call made yet.  known: the login was in this.invitedUsers
\* when the call began; lookup, create: users.getByUsername and
\* orgs.createInvitation were called; changed: the Set, the stats or a data
\* file differ from what they were when the call began; rateLimit: the
\* request failed with an error whose message contains 'rate limit'; run:
\* the process that made the call.
NoInviteCall == [user |-> "", known |-> FALSE, ret |-> FALSE, lookup |-> FALSE,
                 create |-> FALSE, changed |-> FALSE, rateLimit |-> FALSE, run |-> 0]

\* Mutant of EnvMissing: only the token is looked at.
EnvMissing_TokenOnly(env) == ~env.token

\* main: if (!config.githubToken || !config.organization)
EnvMissing(env) == ~env.token \/ ~env.org

Running == [code |-> "none", message |-> "none"]
Exited(code, message) == [code |-> code, message |-> message]

\* main: new InviteManager(config); await manager.initialize().  A file that
\* does not load is rewritten from the constructor's empty state; initOk
\* tells whether those writes succeed (a failed write rejects initialize and
\* main exits).
MgrInitialize(initOk) ==
    /\ mpc = "down"
    /\ mRun < MaxRuns
    /\ mRun' = mRun + 1
    /\ LET loadU == UsersFileLoads(mUsersFile)
           loadS == StatsFileLoads(mStatsFile)
           set   == IF loadU THEN AddAll(<<>>, mUsersFile.users) ELSE <<>>
           st    == IF loadS THEN ParseStats(mStatsFile) ELSE EmptyStats
       IN
       IF EnvMissing(mEnv)
       THEN \* console.error(...); process.exit(1)
            /\ initOk
            /\ mExit' = Exited("1", "missingEnv")
            /\ mpc' = "down"
            /\ UNCHANGED <<mInvited, mStats, mUsersFile, mStatsFile>>
       ELSE IF initOk
       THEN /\ mInvited' = set
            /\ mStats' = st
            /\ mUsersFile' = IF loadU THEN mUsersFile ELSE StringifyUsers(set)
            /\ mStatsFile' = IF loadS THEN mStatsFile ELSE StringifyStats(st)
            /\ mpc' = "ready"
            /\ mExit' = Running
       ELSE \* main().catch: console.error('Error:', ...); process.exit(1)
            /\ ~loadU \/ ~loadS
            /\ mInvited' = <<>>
            /\ mStats' = EmptyStats
            /\ mUsersFile' = mUsersFile
            /\ mStatsFile' = mStatsFile
            /\ mpc' = "down"
            /\ mExit' = Exited("1", "error")
    /\ UNCHANGED <<mQueue, mInvitedCount, mMaxInvites, mSent, mTrue, mFinished,
                   mItems, mLast, mEnv, mApi>>

\* inviteUsers(searchTerm, maxInvites) up to the loop: checkRateLimits and
\* searchUsers.  With no search quota left searchUsers throws, main's catch
\* ends the session and the process exits.
MgrSearch(maxInvites, quota) ==
    /\ mpc = "ready"
    /\ IF quota
       THEN /\ mQueue' = FilterNew(mItems, mInvited)
            /\ mInvitedCount' = 0
            /\ mMaxInvites' = maxInvites
            /\ mpc' = "loop"
            /\ UNCHANGED <<mInvited, mStats>>
       ELSE /\ mpc' = "down"
            /\ mInvited' = <<>>
            /\ mStats' = EmptyStats
            /\ UNCHANGED <<mQueue, mInvitedCount, mMaxInvites>>
    /\ mExit' = IF quota THEN mExit ELSE Exited("1", "error")
    /\ mApi' = TRUE
    /\ UNCHANGED <<mUsersFile, mStatsFile, mRun, mSent, mTrue, mFinished, mItems, mLast,
                   mEnv>>

\* How one inviteUser call ends after the has() check let it through.
\* How the try block of inviteUser ends.  rateLimit: createInvitation
\* rejects with an error whose message contains 'rate limit'.
InviteOutcomes == {"ok", "lookupFails", "inviteFails", "rateLimit", "saveUsersFails",
                   "saveStatsFails"}

\* The stats after a successful invitation; with this.stats parsed from {}
\* the statement this.stats.searchTerms[searchTerm] = ... throws.
StatsUpdateThrows(st) == st.shape # "ok"

UpdatedStats(st, term) ==
    [st EXCEPT !.totalInvites = @ + 1,
               !.searchTerms = IF term \in DOMAIN @ THEN [@ EXCEPT ![term] = @ + 1]
                               ELSE @ @@ (term :> 1)]

\* Mutant of LimitReached: invitedCount > maxInvites
LimitReached_Above(count, max) == count > max

\* inviteUsers: if (invitedCount >= maxInvites)
LimitReached(count, max) == count >= max

\* One iteration of the for loop of inviteUsers: inviteUser(user.login,
\* searchTerm) with its catch, then invitedCount.
MgrInviteNext(term, out) ==
    /\ mpc = "loop"
    /\ mQueue # <<>>
    /\ ~LimitReached(mInvitedCount, mMaxInvites)
    /\ LET u == Head(mQueue)
       IN
       IF SetHas(mInvited, u)
       THEN \* SKIP: return false
            /\ out = "ok"
            /\ mLast' = [user |-> u, known |-> u \in SetOf(mInvited), ret |-> FALSE,
                         lookup |-> FALSE, create |-> FALSE, changed |-> FALSE,
                         rateLimit |-> FALSE, run |-> mRun]
            /\ UNCHANGED <<mInvited, mStats, mUsersFile, mStatsFile, mSent, mTrue,
                           mInvitedCount>>
       ELSE LET requested == out # "lookupFails"
                invited   == out \notin {"lookupFails", "inviteFails", "rateLimit"}
                savedU    == invited /\ out # "saveUsersFails"
                statsDone == savedU /\ ~StatsUpdateThrows(mStats)
                savedS    == statsDone /\ out # "saveStatsFails"
                st        == UpdatedStats(mStats, term)
            IN  /\ mSent' = IF requested THEN [mSent EXCEPT ![mRun] = @ \cup {u}] ELSE mSent
                /\ mInvited' = IF invited THEN SetAdd(mInvited, u) ELSE mInvited
                /\ mUsersFile' = IF savedU THEN StringifyUsers(SetAdd(mInvited, u))
                                 ELSE mUsersFile
                /\ mStats' = IF statsDone THEN st ELSE mStats
                /\ mStatsFile' = IF savedS THEN StringifyStats(st) ELSE mStatsFile
                /\ mTrue' = IF savedS THEN [mTrue EXCEPT ![mRun] = @ \cup {u}] ELSE mTrue
                /\ mInvitedCount' = IF savedS THEN mInvitedCount + 1 ELSE mInvitedCount
                /\ mLast' = [user |-> u, known |-> u \in SetOf(mInvited), ret |-> savedS,
                             lookup |-> TRUE, create |-> requested, changed |-> invited,
                             rateLimit |-> (out = "rateLimit"), run |-> mRun]
    /\ mQueue' = Tail(mQueue)
    /\ UNCHANGED <<mpc, mRun, mMaxInvites, mFinished, mItems, mEnv, mExit, mApi>>

\* The loop ends (no user left, or invitedCount >= maxInvites: break); the
\* summary is printed, main ends the session and the process exits.
MgrFinish ==
    /\ mpc = "loop"
    /\ mQueue = <<>> \/ LimitReached(mInvitedCount, mMaxInvites)
    /\ mpc' = "down"
    /\ mInvited' = <<>>
    /\ mStats' = EmptyStats
    /\ mQueue' = <<>>
    /\ mFinished' = mFinished \cup {mRun}
    /\ mExit' = Exited("0", "none")
    /\ UNCHANGED <<mUsersFile, mStatsFile, mRun, mInvitedCount, mMaxInvites, mSent, mTrue,
                   mItems, mLast, mEnv, mApi>>

\* The process is stopped between two iterations.
MgrKill ==
    /\ mpc = "loop"
    /\ mpc' = "down"
    /\ mInvited' = <<>>
    /\ mStats' = EmptyStats
    /\ mQueue' = <<>>
    /\ mExit' = Exited("killed", "none")
    /\ UNCHANGED <<mUsersFile, mStatsFile, mRun, mInvitedCount, mMaxInvites, mSent, mTrue,
                   mFinished, mItems, mLast, mEnv, mApi>>

\* ===================================== discovery: inviteFollowers.js / .mjs
\* searchUsersByKeyword (js): const maxRetries = 3
maxRetries == 3
\* searchUsersByKeyword (js): page <= 10, page * 100 >= 1000
MaxSearchPages == 10
\* per_page=100 of every discovery URL
PerPage == 100
\* The last page number for which the API of a behaviour still has items
\* (the js search stops by itself and is offered items on every page).
MaxApiPages == 3

\* The discovery functions.
\*   getFollowersJs  : inviteFollowers.js  getFollowers          136-189
\*   getFollowersMjs : inviteFollowers.mjs getFollowers          3364-3393
\*   searchJs        : inviteFollowers.js  searchUsersByKeyword  817-937
\*   searchMjs       : inviteFollowers.mjs searchUsersByKeyword  680-716
\*   scanMembers     : inviteFollowers.js  scanOrganization phase 1 over
\*                     makeApiCall                               337-398
\*   getOrgMembersJs : inviteFollowers.js  getOrgMembers         417-430
DiscoveryFns == {"getFollowersJs", "getFollowersMjs", "searchJs", "searchMjs",
                 "scanMembers", "getOrgMembersJs"}

\* The logins of one answered page.  bob is listed on both pages: a result
\* set that shifts between two page requests.
PageChoices == {<<"alice", "bob">>, <<"bob", "carol">>}

\* An answer: ok with its items and whether the link header has rel="next";
\* a rate limit (403, message with 'rate limit'); another 4xx/5xx; or fetch
\* throwing 'fetch failed'.
OkResponses == {[kind |-> "ok", items |-> it, next |-> n] :
                    it \in PageChoices \cup {<<>>}, n \in BOOLEAN}
FailResponses == {[kind |-> k, items |-> <<>>, next |-> FALSE] :
                      k \in {"rateLimit", "error", "network"}}
Responses == OkResponses \cup FailResponses

VARIABLES
    dFn,           \* the discovery function that is running
    dpc,           \* "run", "returned", "exited" (process.exit), "threw"
    dPage,         \* let page
    allUsers,      \* allUsers / allFollowers / users: array, or Set in insertion order
    retryCount,    \* searchUsersByKeyword (js): retryCount
    getAllUsers,   \* searchUsersByKeyword (js): the getAllUsers parameter
    totalResults,  \* searchUsersByKeyword (js): totalResults
    dRequested,    \* history: the page numbers requested
    dOkPages,      \* history: number of pages answered ok
    dLast          \* history: the last answer and the state it met

discoverVars == <<dFn, dpc, dPage, allUsers, retryCount, getAllUsers, totalResults,
                  dRequested, dOkPages, dLast>>

NoAnswer == [kind |-> "none", page |-> 0, had |-> <<>>, retries |-> 0]

\* Math.min(a, b)
Min(a, b) == IF a < b THEN a ELSE b

\* What the history records for every page request.
Answered(resp) ==
    /\ dRequested' = dRequested \cup {dPage}
    /\ dOkPages' = IF resp.kind = "ok" THEN dOkPages + 1 ELSE dOkPages
    /\ dLast' = [kind |-> resp.kind, page |-> dPage, had |-> allUsers,
                 retries |-> retryCount]

\* getFollowers, one turn of while (hasMore).  js breaks out of the loop on
\* a failed answer, mjs calls process.exit(1); neither catches a throwing
\* fetch.
GetFollowers(resp) ==
    /\ dFn \in {"getFollowersJs", "getFollowersMjs"}
    /\ dpc = "run"
    /\ resp.next => dPage < MaxApiPages
    /\ Answered(resp)
    /\ IF resp.kind = "ok"
       THEN /\ allUsers' = allUsers \o resp.items
            /\ dPage' = IF resp.next THEN dPage + 1 ELSE dPage
            /\ dpc' = IF resp.next THEN "run" ELSE "returned"
       ELSE /\ allUsers' = allUsers
            /\ dPage' = dPage
            /\ dpc' = IF resp.kind = "network" THEN "threw"
                      ELSE IF dFn = "getFollowersJs" THEN "returned" ELSE "exited"
    /\ UNCHANGED <<dFn, retryCount, getAllUsers, totalResults>>

\* The items of a page after users.forEach(user => allUsers.add(user))
RECURSIVE AddEach(_, _)
AddEach(set, users) ==
    IF users = <<>> THEN set
    ELSE AddEach(IF \E i \in 1..Len(set) : set[i] = Head(users)
                 THEN set ELSE Append(set, Head(users)),
                 Tail(users))

\* Mutant of SearchPageIsLast: page * 100 > 1000
SearchPageIsLast_Above(items, page) == items = <<>> \/ page * PerPage > MaxSearchPages * PerPage

\* if (!data.items.length || page * 100 >= 1000)
SearchPageIsLast(items, page) == items = <<>> \/ page * PerPage >= MaxSearchPages * PerPage

\* Mutant of MayRetry: a rate limit is never retried.
MayRetry_Never(n) == FALSE

\* if (retryCount < maxRetries)
MayRetry(n) == n < maxRetries

\* Mutant of RetryCountAfter: the retry is not counted.
RetryCountAfter_Same(n) == n

\* retryCount++
RetryCountAfter(n) == n + 1

\* searchUsersByKeyword (js), one turn of
\* while (hasMore && (getAllUsers || page <= 10)); total: data.total_count.
SearchUsersByKeyword(resp, total) ==
    /\ dFn = "searchJs"
    /\ dpc = "run"
    /\ ~resp.next
    /\ Answered(resp)
    /\ IF resp.kind = "ok"
       THEN LET last == SearchPageIsLast(resp.items, dPage)
                next == IF last THEN dPage ELSE dPage + 1
            IN  /\ totalResults' = IF dPage = 1 THEN Min(total, MaxSearchPages * PerPage)
                                   ELSE totalResults
                /\ allUsers' = AddEach(allUsers, resp.items)
                /\ dPage' = next
                /\ retryCount' = 0
                /\ dpc' = IF ~last /\ (getAllUsers \/ next <= MaxSearchPages)
                          THEN "run" ELSE "returned"
       ELSE LET again == resp.kind = "rateLimit" /\ MayRetry(retryCount)
            IN  /\ retryCount' = IF again THEN RetryCountAfter(retryCount) ELSE retryCount
                /\ dpc' = IF again THEN "run" ELSE "returned"
                /\ UNCHANGED <<totalResults, allUsers, dPage>>
    /\ UNCHANGED <<dFn, getAllUsers>>

\* searchUsersByKeyword (mjs 680-716), one turn of while (hasMore): every
\* failure sets hasMore = false.
SearchUsersByKeywordMjs(resp) ==
    /\ dFn = "searchMjs"
    /\ dpc = "run"
    /\ ~resp.next
    /\ resp.items # <<>> => dPage <= MaxApiPages
    /\ Answered(resp)
    /\ IF resp.kind = "ok" /\ resp.items # <<>>
       THEN /\ allUsers' = allUsers \o resp.items
            /\ dPage' = dPage + 1
            /\ dpc' = "run"
       ELSE /\ dpc' = "returned"
            /\ UNCHANGED <<allUsers, dPage>>
    /\ UNCHANGED <<dFn, retryCount, getAllUsers, totalResults>>

\* scanOrganization phase 1, one request of makeApiCall inside while
\* (hasMore).  makeApiCall waits and asks the same url again on a rate limit
\* and on 'fetch failed'; it throws on every other failure, and the phase
\* catches that and breaks.
ScanMembers(resp) ==
    /\ dFn = "scanMembers"
    /\ dpc = "run"
    /\ ~resp.next
    /\ resp.items # <<>> => dPage <= MaxApiPages
    /\ Answered(resp)
    /\ IF resp.kind = "ok"
       THEN /\ allUsers' = AddEach(allUsers, resp.items)
            /\ dPage' = IF resp.items = <<>> THEN dPage ELSE dPage + 1
            /\ dpc' = IF resp.items = <<>> THEN "returned" ELSE "run"
       ELSE /\ dpc' = IF resp.kind \in {"rateLimit", "network"} THEN "run" ELSE "returned"
            /\ UNCHANGED <<allUsers, dPage>>
    /\ UNCHANGED <<dFn, retryCount, getAllUsers, totalResults>>

\* getOrgMembers (js): one request; process.exit(1) when it is not ok.
GetOrgMembers(resp) ==
    /\ dFn = "getOrgMembersJs"
    /\ dpc = "run"
    /\ ~resp.next
    /\ Answered(resp)
    /\ IF resp.kind = "ok"
       THEN allUsers' = resp.items /\ dpc' = "returned"
       ELSE allUsers' = allUsers
            /\ dpc' = IF resp.kind = "network" THEN "threw" ELSE "exited"
    /\ UNCHANGED <<dFn, dPage, retryCount, getAllUsers, totalResults>>

\* A discovery function has just been called.
InitDiscover ==
    /\ dFn \in DiscoveryFns
    /\ getAllUsers \in BOOLEAN
    /\ getAllUsers => dFn = "searchJs"
    /\ dpc = "run"
    /\ dPage = 1
    /\ allUsers = <<>>
    /\ retryCount = 0
    /\ totalResults = 0
    /\ dRequested = {}
    /\ dOkPages = 0
    /\ dLast = NoAnswer

\* No discovery is running.
DiscoverQuiet ==
    /\ dFn = "getFollowersJs"
    /\ getAllUsers = FALSE
    /\ dpc = "returned"
    /\ dPage = 1
    /\ allUsers = <<>>
    /\ retryCount = 0
    /\ totalResults = 0
    /\ dRequested = {}
    /\ dOkPages = 0
    /\ dLast = NoAnswer

\* =============== search_and_invite.js: two instances on one ledger file
\* Two processes, each with its own InviteManager, share invited_users.json.
Instances == {"A", "B"}

VARIABLES
    rFile,      \* invited_users.json, shared by the instances
    rMem,       \* instance -> its this.invitedUsers (NoLedger before construction)
    rpc,        \* instance -> "down" | "up"
    rClock,     \* new Date()
    rTracked,   \* history: instance -> usernames its trackInvite returned true for
    rWriter     \* history: the instance whose writeFile completed last

raceVars == <<rFile, rMem, rpc, rClock, rTracked, rWriter>>

\* The ledger a file already holds when the instances start.
RaceStartFiles ==
    {MissingFile,
     Stringify(TrackedLedger(DefaultLedger(0), "carol", "search-X", 0))}

\* Mutant of WriteFile: the entries of the file that the written ledger
\* lacks are kept.
WriteFile_Merge(file, l) ==
    IF JsonParses(file)
    THEN LET old  == JsonParse(file).invited_users
             keep == SelectSeq(old, LAMBDA e : ~HasOwn(l.invited_users, e.name))
         IN  Stringify([l EXCEPT !.invited_users = keep \o @,
                                 !.total_invites = @ + Len(keep)])
    ELSE Stringify(l)

\* fs.promises.writeFile(path, JSON.stringify(this.invitedUsers, null, 2)):
\* the whole file is replaced by the text of the writer's in-memory ledger.
WriteFile(file, l) == Stringify(l)

\* new InviteManager() in instance i.
RaceConstruct(i) ==
    /\ rpc[i] = "down"
    /\ rpc' = [rpc EXCEPT ![i] = "up"]
    /\ rMem' = [rMem EXCEPT ![i] = LoadInvitedUsers(rFile, rClock)]
    /\ UNCHANGED <<rFile, rClock, rTracked, rWriter>>

\* trackInvite(u, t) in instance i, the write completing.
RaceTrackInvite(i, u, t) ==
    /\ rpc[i] = "up"
    /\ rClock < MaxClock
    /\ ~IsUserInvited(rMem[i], u)
    /\ LET l == TrackedLedger(rMem[i], u, t, rClock)
       IN  /\ rMem' = [rMem EXCEPT ![i] = l]
           /\ rFile' = WriteFile(rFile, l)
    /\ rClock' = rClock + 1
    /\ rTracked' = [rTracked EXCEPT ![i] = @ \cup {u}]
    /\ rWriter' = i
    /\ UNCHANGED rpc

InitRace ==
    /\ rFile \in RaceStartFiles
    /\ rMem = [i \in Instances |-> NoLedger]
    /\ rpc = [i \in Instances |-> "down"]
    /\ rClock = 0
    /\ rTracked = [i \in Instances |-> {}]
    /\ rWriter = "none"

\* No instance pair is running.
RaceQuiet ==
    /\ rFile = MissingFile
    /\ rMem = [i \in Instances |-> NoLedger]
    /\ rpc = [i \in Instances |-> "up"]
    /\ rClock = MaxClock
    /\ rTracked = [i \in Instances |-> {}]
    /\ rWriter = "none"

\* ==================== inviteFollowers.js: one run of the script after another
MaxFollowRuns == 2

VARIABLES
    fRun,            \* runs of the script started so far
    fLoggedEarlier   \* history: usernames on the log lines earlier runs left

runVars == <<fRun, fLoggedEarlier>>

\* The usernames appendToLog wrote: the third field of each line.
LoggedUsers(log) == {log[i].user : i \in 1..Len(log)}

\* The process has ended and the script is started again: the files stay,
\* the module-level state is built anew (stats loaded from its file).
StartAgain ==
    /\ fpc \in {"done", "cancelled", "exited"}
    /\ fRun < MaxFollowRuns
    /\ fRun' = fRun + 1
    /\ fLoggedEarlier' = LoggedUsers(invitationLog)
    /\ invitationStats' = LoadStats(statsFile)
    /\ failedInvitesCount' = 0
    /\ newFollowers' = <<>>
    /\ forceInvite' = FALSE
    /\ previouslyInvited' = {}
    /\ fpc' = "start"
    /\ fExit' = "none"
    /\ fLast' = NoInvite
    /\ UNCHANGED <<fVariant, statsFile, now, followers, members, invitationLog,
                   fPosted, fPosts, fClean, fRateLimited, fOtherFailed, fSentAt,
                   fEnv, fApi>>

\* The first run of inviteFollowers.js, about to dispatch.
InitFollowRuns ==
    /\ statsFile = StatsMissing
    /\ followers = <<"alice", "bob">>
    /\ members = <<>>
    /\ invitationLog = <<>>
    /\ FollowStarted
    /\ fVariant = "js"
    /\ fRun = 1
    /\ fLoggedEarlier = {}

RunQuiet ==
    /\ fRun = 1
    /\ fLoggedEarlier = {}

\* ============================ inviteFollowers.mjs: cleanupLogFile at startup
MaxLogLen == 3

VARIABLES
    cLog,      \* invitation_log.txt: its non-blank lines
    cNow,      \* Date.now(), in hours
    cpc,       \* "run": invitations are being logged; "cleaned": after cleanupLogFile
    cBefore    \* history: the lines cleanupLogFile read

cleanVars == <<cLog, cNow, cpc, cBefore>>

\* inviteUser, line 940:  `${timestamp} - ${sourceUsername} - ${username}\n`
StampedLine(at, source, user) ==
    [fields |-> 3, at |-> at, source |-> source, user |-> user, recorded |-> at]

\* inviteUser, lines 3500-3502:  `${sourceUsername} - ${username}\n`
\* recorded: history, the hour the line was written.
TwoFieldLine(at, source, user) ==
    [fields |-> 2, at |-> 0, source |-> source, user |-> user, recorded |-> at]

\* new Date(timestamp).getTime() of the first field is a number: the first
\* field of a two-field line is the source name, an invalid date (NaN).
TimeParses(line) == line.fields = 3

\* cleanupLogFile, the filter: now - inviteTime <= oneDay.  A comparison
\* with NaN is false.
KeepsLine(line, t) ==
    TimeParses(line) /\ t - line.at <= OneDay

\* An invitation is logged, by either inviteUser of the file.
LogInvitation(line) ==
    /\ cpc = "run"
    /\ Len(cLog) < MaxLogLen
    /\ line \in {StampedLine(cNow, SourceUsername, u) : u \in {"alice", "bob"}}
              \cup {TwoFieldLine(cNow, SourceUsername, "alice")}
    /\ cLog' = Append(cLog, line)
    /\ UNCHANGED <<cNow, cpc, cBefore>>

\* Time passes between invitations and before the next start.
CleanTick ==
    /\ cpc = "run"
    /\ cNow + TickHours <= MaxHour
    /\ cNow' = cNow + TickHours
    /\ UNCHANGED <<cLog, cpc, cBefore>>

\* cleanupLogFile()
CleanupLogFile ==
    /\ cpc = "run"
    /\ cLog # <<>>
    /\ cpc' = "cleaned"
    /\ cBefore' = cLog
    /\ cLog' = SelectSeq(cLog, LAMBDA line : KeepsLine(line, cNow))
    /\ UNCHANGED cNow

InitClean ==
    /\ cLog = <<>>
    /\ cNow = 0
    /\ cpc = "run"
    /\ cBefore = <<>>

CleanQuiet ==
    /\ cLog = <<>>
    /\ cNow = 0
    /\ cpc = "down"
    /\ cBefore = <<>>

\* ================= inviteFollowers.js: appendToLog and its retry loop
\* const maxRetries = 3 of the log loop in inviteUser
LogMaxRetries == 3
\* The candidates whose invitation is accepted in the run, in loop order.
AcceptedUsers == <<"alice", "bob">>

VARIABLES
    aLog,       \* invitation_log.txt: its lines
    aTemp,      \* invitation_log_temp.txt: its lines, <<>> when it does not exist
    apc,        \* "idle": outside the log loop; "logging": inside it
    aRetry,     \* retryCount
    aSuccess,   \* logSuccess
    aUser,      \* username
    aClock,     \* new Date(): one tick per appendToLog call
    aAccepted,  \* invitations accepted so far in the run
    aBefore     \* history: the log when the log loop was entered

appendVars == <<aLog, aTemp, apc, aRetry, aSuccess, aUser, aClock, aAccepted, aBefore>>

\* How the try block of appendToLog ends: the line is appended and
\* verified; appendFileSync (or mkdirSync, writeFileSync) throws; the line
\* is appended and the verification throws.
PrimaryResults == {"ok", "appendThrows", "verifyThrows"}
\* How the alternative method ends: appended to the temporary file and
\* renamed; appendFileSync(tempPath) throws; renameSync throws.
FallbackResults == {"ok", "appendThrows", "renameThrows"}

\* The log after the try block.
AfterPrimary(log, entry, primary) ==
    IF primary = "appendThrows" THEN log ELSE Append(log, entry)

\* fs.appendFileSync(tempPath, logEntry); fs.renameSync(tempPath, LOG_FILE):
\* the temporary file takes the place of the log.
AfterFallback(log, temp, entry, fallback) ==
    IF fallback = "ok" THEN Append(temp, entry) ELSE log

\* The temporary file after the alternative method.
TempAfterFallback(temp, entry, fallback) ==
    CASE fallback = "ok"           -> <<>>
      [] fallback = "appendThrows" -> temp
      [] fallback = "renameThrows" -> Append(temp, entry)

\* inviteUser: res.ok, the stats are updated and the log loop is entered.
BeginLog(u) ==
    /\ apc = "idle"
    /\ aAccepted < Len(AcceptedUsers)
    /\ u = AcceptedUsers[aAccepted + 1]
    /\ aAccepted' = aAccepted + 1
    /\ apc' = "logging"
    /\ aRetry' = 0
    /\ aSuccess' = FALSE
    /\ aUser' = u
    /\ aBefore' = aLog
    /\ UNCHANGED <<aLog, aTemp, aClock>>

\* One turn of  while (!logSuccess && retryCount < maxRetries):
\* appendToLog(sourceUsername, username) and its catch.
AppendToLog(primary, fallback) ==
    /\ apc = "logging"
    /\ ~aSuccess /\ aRetry < LogMaxRetries
    /\ primary = "ok" => fallback = "ok"
    /\ LET entry == LogEntry(aClock, SourceUsername, aUser)
           log1  == AfterPrimary(aLog, entry, primary)
       IN  IF primary = "ok"
           THEN /\ aLog' = log1
                /\ aSuccess' = TRUE
                /\ UNCHANGED <<aTemp, aRetry>>
           ELSE /\ aLog' = AfterFallback(log1, aTemp, entry, fallback)
                /\ aTemp' = TempAfterFallback(aTemp, entry, fallback)
                /\ aSuccess' = (fallback = "ok")
                /\ aRetry' = IF fallback = "ok" THEN aRetry ELSE aRetry + 1
    /\ aClock' = aClock + 1
    /\ UNCHANGED <<apc, aUser, aAccepted, aBefore>>

\* The loop is left; inviteUser returns true.
EndLog ==
    /\ apc = "logging"
    /\ aSuccess \/ aRetry >= LogMaxRetries
    /\ apc' = "idle"
    /\ UNCHANGED <<aLog, aTemp, aRetry, aSuccess, aUser, aClock, aAccepted, aBefore>>

InitAppend ==
    /\ aLog \in StartLogs
    /\ aTemp = <<>>
    /\ apc = "idle"
    /\ aRetry = 0
    /\ aSuccess = FALSE
    /\ aUser = ""
    /\ aClock = 1
    /\ aAccepted = 0
    /\ aBefore = <<>>

AppendQuiet ==
    /\ aLog = <<>>
    /\ aTemp = <<>>
    /\ apc = "down"
    /\ aRetry = 0
    /\ aSuccess = FALSE
    /\ aUser = ""
    /\ aClock = 1
    /\ aAccepted = 0
    /\ aBefore = <<>>

\* ================= search_and_invite.js: SearchAndInvite.searchAndInviteUsers
VARIABLES
    spc,        \* "idle", "loop", "invite" (between trackInvite and inviteUser),
                \* "done", "failed" (an error left the loop or the process stopped)
    sQueue,     \* for (const username of users): the usernames not yet visited
    sCarried    \* history: usernames whose inviteUser step completed

searchVars == <<spc, sQueue, sCarried>>

\* What searchUsers(searchTerm) returns once it is filled in (the method
\* in the file is the placeholder `return []`).
SearchCandidates == SeqsUpTo(Users, 2) \ {<<>>}

\* The term main passes: searchAndInviteUsers('search-IIT').
SearchTerm == "search-X"

\* How the inviteUser step ends: it completes; it throws (fs.appendFile or
\* the invite logic rejects); the process stops before or during it.
InviteStepResults == {"ok", "throws", "stops"}

\* const users = await this.searchUsers(searchTerm)
SearchBegin(users) ==
    /\ lpc = "up"
    /\ spc = "idle"
    /\ spc' = "loop"
    /\ sQueue' = users
    /\ UNCHANGED <<ledgerVars, sCarried>>

\* if (await this.inviteManager.trackInvite(username, searchTerm))
SearchTrackInvite(out) ==
    /\ spc = "loop"
    /\ sQueue # <<>>
    /\ TrackInvite(Head(sQueue), SearchTerm, out)
    /\ IF lpc' = "down" \/ lastCall'.threw
       THEN spc' = "failed" /\ sQueue' = sQueue
       ELSE IF lastCall'.ret
       THEN spc' = "invite" /\ sQueue' = sQueue
       ELSE \* skippedCount++
            spc' = "loop" /\ sQueue' = Tail(sQueue)
    /\ UNCHANGED sCarried

\* await this.inviteUser(username, searchTerm); invitedCount++
SearchInviteUser(res) ==
    /\ spc = "invite"
    /\ IF res = "ok"
       THEN /\ spc' = "loop"
            /\ sQueue' = Tail(sQueue)
            /\ sCarried' = sCarried \cup {Head(sQueue)}
            /\ logFile' = Append(logFile, LogLine(SearchTerm, Head(sQueue)))
            /\ UNCHANGED <<invitedUsers, lpc>>
       ELSE /\ spc' = "failed"
            /\ lpc' = IF res = "stops" THEN "down" ELSE lpc
            /\ invitedUsers' = IF res = "stops" THEN NoLedger ELSE invitedUsers
            /\ UNCHANGED <<sQueue, sCarried, logFile>>
    /\ UNCHANGED <<ledgerFile, clock, lastCall, savedLedger, firstTrack>>

\* The loop has visited every username; the summary is printed.
SearchEnd ==
    /\ spc = "loop"
    /\ sQueue = <<>>
    /\ spc' = "done"
    /\ UNCHANGED <<ledgerVars, sQueue, sCarried>>

\* new SearchAndInvite() has not been called yet.
InitSearch ==
    /\ ledgerFile \in {MissingFile, GarbageFile, NoFieldsFile}
    /\ logFile = <<>>
    /\ invitedUsers = NoLedger
    /\ lpc = "down"
    /\ clock = 1
    /\ lastCall = NoCall
    /\ savedLedger = NoLedger
    /\ firstTrack = [x \in {} |-> 0]
    /\ spc = "idle"
    /\ sQueue = <<>>
    /\ sCarried = {}

SearchQuiet ==
    /\ spc = "down"
    /\ sQueue = <<>>
    /\ sCarried = {}

auxVars == <<raceVars, runVars, cleanVars, appendVars, searchVars>>

AuxQuiet == RaceQuiet /\ RunQuiet /\ CleanQuiet /\ AppendQuiet /\ SearchQuiet

vars == <<ledgerVars, mgrVars, followVars, discoverVars, auxVars>>

\* ============================================== inviteManager.js: runs
InitMgr ==
    /\ mUsersFile \in {MgrMissing, MgrGarbage, MgrNoFields}
    /\ mStatsFile \in {MgrMissing, MgrNoFields}
    /\ mInvited = <<>>
    /\ mStats = EmptyStats
    /\ mpc = "down"
    /\ mRun = 0
    /\ mQueue = <<>>
    /\ mInvitedCount = 0
    /\ mMaxInvites = 0
    /\ mSent = NoRuns
    /\ mTrue = NoRuns
    /\ mFinished = {}
    /\ mItems \in SearchResults
    /\ mLast = NoInviteCall
    /\ mEnv \in [token : BOOLEAN, org : BOOLEAN]
    /\ mExit = Running
    /\ mApi = FALSE

\* inviteManager.js is not running.
MgrQuiet ==
    /\ mUsersFile = MgrMissing
    /\ mStatsFile = MgrMissing
    /\ mInvited = <<>>
    /\ mStats = EmptyStats
    /\ mpc = "down"
    /\ mRun = 0
    /\ mQueue = <<>>
    /\ mInvitedCount = 0
    /\ mMaxInvites = 0
    /\ mSent = NoRuns
    /\ mTrue = NoRuns
    /\ mFinished = {}
    /\ mItems = SearchItems
    /\ mLast = NoInviteCall
    /\ mEnv = [token |-> TRUE, org |-> TRUE]
    /\ mExit = Running
    /\ mApi = FALSE

\* invite_manager.js is not running.
LedgerQuiet ==
    /\ ledgerFile = MissingFile
    /\ logFile = <<>>
    /\ invitedUsers = NoLedger
    /\ lpc = "down"
    /\ clock = 1
    /\ lastCall = NoCall
    /\ savedLedger = NoLedger
    /\ firstTrack = [x \in {} |-> 0]

NextMgr ==
    \/ \E initOk \in BOOLEAN : MgrInitialize(initOk) /\ UNCHANGED <<ledgerVars, followVars, discoverVars, auxVars>>
    \/ \E n \in {1, 2, DefaultMaxInvites}, quota \in BOOLEAN :
          MgrSearch(n, quota) /\ UNCHANGED <<ledgerVars, followVars, discoverVars, auxVars>>
    \/ \E term \in MgrTerms, out \in InviteOutcomes :
          MgrInviteNext(term, out) /\ UNCHANGED <<ledgerVars, followVars, discoverVars, auxVars>>
    \/ MgrFinish /\ UNCHANGED <<ledgerVars, followVars, discoverVars, auxVars>>
    \/ MgrKill /\ UNCHANGED <<ledgerVars, followVars, discoverVars, auxVars>>

InitMgrOnly == InitMgr /\ LedgerQuiet /\ FollowQuiet /\ DiscoverQuiet /\ AuxQuiet

SpecMgr == InitMgrOnly /\ [][NextMgr]_vars

\* ================================================= invite_manager: runs
\* The ledger file found at the first start: absent, unparseable, or the
\* text {}; every other content is written by the runs themselves.
InitLedger ==
    /\ ledgerFile \in {MissingFile, GarbageFile, NoFieldsFile}
    /\ logFile \in SeqsUpTo(LogLineChoices, MaxLogLines)
    /\ invitedUsers = NoLedger
    /\ lpc = "down"
    /\ clock = 1
    /\ lastCall = NoCall
    /\ savedLedger = NoLedger
    /\ firstTrack = [x \in {} |-> 0]

NextLedger ==
    \/ Construct /\ UNCHANGED <<mgrVars, followVars, discoverVars, auxVars>>
    \/ Exit /\ UNCHANGED <<mgrVars, followVars, discoverVars, auxVars>>
    \/ \E u \in Users, t \in Terms, out \in SaveOutcomes :
          TrackInvite(u, t, out) /\ UNCHANGED <<mgrVars, followVars, discoverVars, auxVars>>
    \/ \E out \in SaveOutcomes : ImportFromLog(out) /\ UNCHANGED <<mgrVars, followVars, discoverVars, auxVars>>
    \/ GetStatisticsCall /\ UNCHANGED <<mgrVars, followVars, discoverVars, auxVars>>

InitLedgerOnly == InitLedger /\ MgrQuiet /\ FollowQuiet /\ DiscoverQuiet /\ AuxQuiet

SpecLedger == InitLedgerOnly /\ [][NextLedger]_vars

\* ============================================== inviteFollowers: runs
NextFollow ==
    \/ \E proceed, force \in BOOLEAN :
          Dispatch(proceed, force) /\ UNCHANGED <<ledgerVars, mgrVars, discoverVars, auxVars>>
    \/ \E out \in JsOutcomes \cup MjsOutcomes, torn \in BOOLEAN :
          InviteUser(out, torn) /\ UNCHANGED <<ledgerVars, mgrVars, discoverVars, auxVars>>
    \/ FinishLoop /\ UNCHANGED <<ledgerVars, mgrVars, discoverVars, auxVars>>
    \/ Tick /\ UNCHANGED <<ledgerVars, mgrVars, discoverVars, auxVars>>

InitFollowOnly == InitFollow /\ LedgerQuiet /\ MgrQuiet /\ DiscoverQuiet /\ AuxQuiet

SpecFollow == InitFollowOnly /\ [][NextFollow]_vars

\* Both entry points from process start: inviteManager.js main and the
\* inviteFollowers scripts.  The process started is one of the two:
\* inviteManager.js where no inviteFollowers script is (fpc = "down").
NextBoot ==
    \/ fpc = "down" /\ NextMgr
    \/ LoadScript /\ UNCHANGED <<ledgerVars, mgrVars, discoverVars, auxVars>>
    \/ NextFollow

InitBoot ==
    \/ InitMgrOnly
    \/ InitFollowBoot /\ LedgerQuiet /\ MgrQuiet /\ DiscoverQuiet /\ AuxQuiet

SpecBoot == InitBoot /\ [][NextBoot]_vars

\* inviteFollowers.js run after run on the same files.
NextFollowRuns ==
    \/ NextFollow
    \/ StartAgain /\ UNCHANGED <<ledgerVars, mgrVars, discoverVars, raceVars, cleanVars, appendVars, searchVars>>

InitFollowRunsOnly ==
    InitFollowRuns /\ LedgerQuiet /\ MgrQuiet /\ DiscoverQuiet /\ RaceQuiet
    /\ CleanQuiet /\ AppendQuiet /\ SearchQuiet

SpecFollowRuns == InitFollowRunsOnly /\ [][NextFollowRuns]_vars

\* inviteFollowers.mjs: lines are logged over time, then the script starts
\* and cleans the log.
NextClean ==
    \/ \E at \in {cNow}, u \in {"alice", "bob"} :
          LogInvitation(StampedLine(at, SourceUsername, u))
          /\ UNCHANGED <<ledgerVars, mgrVars, followVars, discoverVars, raceVars, runVars, appendVars, searchVars>>
    \/ LogInvitation(TwoFieldLine(cNow, SourceUsername, "alice"))
          /\ UNCHANGED <<ledgerVars, mgrVars, followVars, discoverVars, raceVars, runVars, appendVars, searchVars>>
    \/ CleanTick
          /\ UNCHANGED <<ledgerVars, mgrVars, followVars, discoverVars, raceVars, runVars, appendVars, searchVars>>
    \/ CleanupLogFile
          /\ UNCHANGED <<ledgerVars, mgrVars, followVars, discoverVars, raceVars, runVars, appendVars, searchVars>>

InitCleanOnly ==
    InitClean /\ LedgerQuiet /\ MgrQuiet /\ FollowQuiet /\ DiscoverQuiet /\ RaceQuiet
    /\ RunQuiet /\ AppendQuiet /\ SearchQuiet

SpecClean == InitCleanOnly /\ [][NextClean]_vars

\* inviteFollowers.js: the log loop of inviteUser, invitation after invitation.
NextAppend ==
    \/ \E u \in {"alice", "bob"} :
          BeginLog(u)
          /\ UNCHANGED <<ledgerVars, mgrVars, followVars, discoverVars, raceVars, runVars,
                         cleanVars, searchVars>>
    \/ \E primary \in PrimaryResults, fallback \in FallbackResults :
          AppendToLog(primary, fallback)
          /\ UNCHANGED <<ledgerVars, mgrVars, followVars, discoverVars, raceVars, runVars,
                         cleanVars, searchVars>>
    \/ EndLog
          /\ UNCHANGED <<ledgerVars, mgrVars, followVars, discoverVars, raceVars, runVars,
                         cleanVars, searchVars>>

InitAppendOnly ==
    InitAppend /\ LedgerQuiet /\ MgrQuiet /\ FollowQuiet /\ DiscoverQuiet /\ RaceQuiet
    /\ RunQuiet /\ CleanQuiet /\ SearchQuiet

SpecAppend == InitAppendOnly /\ [][NextAppend]_vars

\* search_and_invite.js: new SearchAndInvite(), then searchAndInviteUsers.
NextSearch ==
    \/ spc = "idle" /\ Construct
          /\ UNCHANGED <<mgrVars, followVars, discoverVars, raceVars, runVars, cleanVars,
                         appendVars, searchVars>>
    \/ \E users \in SearchCandidates :
          SearchBegin(users)
          /\ UNCHANGED <<mgrVars, followVars, discoverVars, raceVars, runVars, cleanVars,
                         appendVars>>
    \/ \E out \in SaveOutcomes :
          SearchTrackInvite(out)
          /\ UNCHANGED <<mgrVars, followVars, discoverVars, raceVars, runVars, cleanVars,
                         appendVars>>
    \/ \E res \in InviteStepResults :
          SearchInviteUser(res)
          /\ UNCHANGED <<mgrVars, followVars, discoverVars, raceVars, runVars, cleanVars,
                         appendVars>>
    \/ SearchEnd
          /\ UNCHANGED <<mgrVars, followVars, discoverVars, raceVars, runVars, cleanVars,
                         appendVars>>

InitSearchOnly ==
    InitSearch /\ MgrQuiet /\ FollowQuiet /\ DiscoverQuiet /\ RaceQuiet /\ RunQuiet
    /\ CleanQuiet /\ AppendQuiet

SpecSearch == InitSearchOnly /\ [][NextSearch]_vars

\* The long discovery result, for the failure limit.
NextBreaker ==
    \/ \E proceed, force \in BOOLEAN :
          Dispatch(proceed, force) /\ UNCHANGED <<ledgerVars, mgrVars, discoverVars, auxVars>>
    \/ \E out \in BreakerOutcomes :
          InviteUser(out, FALSE) /\ UNCHANGED <<ledgerVars, mgrVars, discoverVars, auxVars>>
    \/ FinishLoop /\ UNCHANGED <<ledgerVars, mgrVars, discoverVars, auxVars>>

InitBreakerOnly == InitBreaker /\ LedgerQuiet /\ MgrQuiet /\ DiscoverQuiet /\ AuxQuiet

SpecBreaker == InitBreakerOnly /\ [][NextBreaker]_vars

\* ===================================== two instances on one ledger: runs
NextRace ==
    \/ \E i \in Instances :
          RaceConstruct(i)
          /\ UNCHANGED <<ledgerVars, mgrVars, followVars, discoverVars, runVars, cleanVars, appendVars, searchVars>>
    \/ \E i \in Instances, u \in Users, t \in Terms :
          RaceTrackInvite(i, u, t)
          /\ UNCHANGED <<ledgerVars, mgrVars, followVars, discoverVars, runVars, cleanVars, appendVars, searchVars>>

InitRaceOnly ==
    InitRace /\ LedgerQuiet /\ MgrQuiet /\ FollowQuiet /\ DiscoverQuiet /\ RunQuiet
    /\ CleanQuiet /\ AppendQuiet /\ SearchQuiet

SpecRace == InitRaceOnly /\ [][NextRace]_vars

\* ==================================================== discovery: runs
\* data.total_count of the search API: none, some, more than the cap.
TotalCounts == {0, 150, 5000}

NextDiscover ==
    \/ \E resp \in Responses :
          GetFollowers(resp) /\ UNCHANGED <<ledgerVars, mgrVars, followVars, auxVars>>
    \/ \E resp \in Responses, total \in TotalCounts :
          SearchUsersByKeyword(resp, total) /\ UNCHANGED <<ledgerVars, mgrVars, followVars, auxVars>>
    \/ \E resp \in Responses :
          SearchUsersByKeywordMjs(resp) /\ UNCHANGED <<ledgerVars, mgrVars, followVars, auxVars>>
    \/ \E resp \in Responses :
          ScanMembers(resp) /\ UNCHANGED <<ledgerVars, mgrVars, followVars, auxVars>>
    \/ \E resp \in Responses :
          GetOrgMembers(resp) /\ UNCHANGED <<ledgerVars, mgrVars, followVars, auxVars>>

InitDiscoverOnly == InitDiscover /\ LedgerQuiet /\ MgrQuiet /\ FollowQuiet /\ AuxQuiet

SpecDiscover == InitDiscoverOnly /\ [][NextDiscover]_vars

\* The discovery functions are async functions whose awaits (fetch, the
\* waits of 1 s and 60 s) all settle: a loop that can take a turn takes it.
SpecDiscoverFair == SpecDiscover /\ WF_vars(NextDiscover)

\* ======================================================== ledger: claims
EntryOf(obj, k) == obj[IndexOf(obj, k)]

CountOf(f, k) == IF k \in DOMAIN f THEN f[k] ELSE 0

\* Every source term a ledger entry can carry (trackInvite and the log).
AllTerms == Terms \cup {"unknown", "search-X"}

\* C1: for every username u and terms t, t2: after trackInvite(u, t),
\* isUserInvited(u) is true and the ledger stores u with search_term t and
\* the time of that call; a later trackInvite(u, t2) returns false and
\* changes neither the entries nor total_invites.
C1_RecordThenContacted ==
    /\ \A u \in DOMAIN firstTrack :
          /\ IsUserInvited(invitedUsers, u)
          /\ HasOwn(invitedUsers.invited_users, u)
          /\ EntryOf(invitedUsers.invited_users, u).search_term = firstTrack[u].term
          /\ EntryOf(invitedUsers.invited_users, u).invited_at = firstTrack[u].at
    /\ (lastCall.op = "trackInvite" /\ ~lastCall.fresh /\ ~lastCall.threw)
          => (~lastCall.ret /\ ~lastCall.mutated)

C7_SaveThenLoad ==
    (lastCall.op = "load" /\ savedLedger.shape # "none") =>
        /\ EntrySet(invitedUsers.invited_users) = EntrySet(savedLedger.invited_users)
        /\ invitedUsers.shape = savedLedger.shape

\* A fresh manager has loaded a saved ledger of two entries with different
\* terms and times.
C7_Witness ==
    /\ lastCall.op = "load"
    /\ Len(savedLedger.invited_users) = 2
    /\ savedLedger.invited_users[1].search_term # savedLedger.invited_users[2].search_term
    /\ savedLedger.invited_users[1].invited_at # savedLedger.invited_users[2].invited_at

\* C8: while a manager lives, trackInvite and importFromLog keep every entry
\* of the ledger in place and unchanged (they only append), and no username
\* has two entries.
C8_AppendOnly ==
    /\ [](\A i, j \in 1..Len(invitedUsers.invited_users) :
             invitedUsers.invited_users[i].name = invitedUsers.invited_users[j].name
                 => i = j)
    /\ [][(lpc = "up" /\ lpc' = "up") =>
             /\ Len(invitedUsers'.invited_users) >= Len(invitedUsers.invited_users)
             /\ \A i \in 1..Len(invitedUsers.invited_users) :
                   invitedUsers'.invited_users[i] = invitedUsers.invited_users[i]]_vars

\* importFromLog has added an entry behind one that trackInvite had made,
\* and a trackInvite for a recorded user has then been refused.
C8_Witness ==
    /\ Len(invitedUsers.invited_users) = 2
    /\ invitedUsers.invited_users[1].invited_at > 0
    /\ invitedUsers.invited_users[2].invited_at = 0
    /\ lastCall.op = "trackInvite" /\ ~lastCall.ret /\ ~lastCall.fresh

\* C9: a manager constructed on a missing or corrupt ledger file
\* (unparseable, or parseable without the expected fields) holds the empty
\* ledger, and no later call fails for want of it.
C9_LoadToleratesCorruptFile ==
    /\ (lastCall.op = "load" /\ (~JsonParses(ledgerFile) \/ ledgerFile.shape # "ok"))
          => invitedUsers = DefaultLedger(clock)
    /\ lpc = "up" => ~IsUserInvitedThrows(invitedUsers)

\* C10: whenever the process stops during a flush, invited_users.json holds
\* either the complete previous text or the complete new text.
C10_FlushAtomic ==
    lpc = "down" => ledgerFile.kind \in {"missing", "garbage", "json"}

SetOfList(list) == {list[i] : i \in 1..Len(list)}

\* C3: an inviteUser call made while last24Hours is at the limit of 50 and
\* the last invitation is at most 24 hours old refuses when forceInvite is
\* not set (returns false, no POST), and goes past the budget check when it
\* is set (an accepted POST then returns true); below the limit a call is
\* never refused.
C3_BudgetRefusesAtLimit ==
    fLast.out # "none" =>
        /\ (fLast.within /\ fLast.count >= DailyLimit /\ ~fLast.force) =>
               (fLast.refused /\ ~fLast.ret /\ ~fLast.posted)
        /\ (fLast.within /\ fLast.count >= DailyLimit /\ fLast.force) =>
               /\ ~fLast.refused
               /\ fLast.out = "ok" => (fLast.posted /\ fLast.ret)
        /\ fLast.count < DailyLimit => ~fLast.refused

\* The 50th invitation of the window was sent by this run and the next
\* candidate is refused.
C3_Witness ==
    /\ fLast.refused
    /\ ~fLast.force
    /\ fLast.within
    /\ fLast.count = DailyLimit
    /\ fPosts = 1
    /\ invitationStats.totalInvites = DailyLimit

\* C4: no POST is ever sent for a login of the fetched member list, and a
\* dispatch loop that ran to its end with nothing read from the log, every
\* inviteUser call successful and none refused has sent a POST for exactly
\* the candidates that are not in the member list.
C4_DispatchInvitesNonMembers ==
    /\ fPosted \cap SetOfList(members) = {}
    /\ (fpc = "done" /\ fClean /\ previouslyInvited = {}) =>
           fPosted = SetOfList(followers) \ SetOfList(members)

\* Scenario A: candidates alice, bob, carol; members bob.
C4_Witness ==
    /\ fVariant = "mjs"
    /\ fpc = "done"
    /\ fClean
    /\ invitationLog # <<>>
    /\ previouslyInvited = {}
    /\ followers = <<"alice", "bob", "carol">>
    /\ members = <<"bob">>
    /\ fPosted = {"alice", "carol"}

\* C5: the run is ended by the failure counter exactly when the counter
\* reaches MAX_FAILED_INVITES, never before; while no failure other than a
\* rate limit has been met (in mjs: always) the counter is the number of
\* rate-limit failures; once the run is ended no further POST is sent.
C5_AbortAtTwentiethFailure ==
    /\ [](/\ fpc = "exited" => failedInvitesCount = MAX_FAILED_INVITES
          /\ failedInvitesCount >= MAX_FAILED_INVITES => fpc = "exited"
          /\ (fVariant = "mjs" \/ fOtherFailed = 0) =>
                 failedInvitesCount = fRateLimited)
    /\ [][fpc = "exited" => (fpc' = "exited" /\ fPosts' = fPosts)]_vars

\* Scenario B: twenty attempts, all answered with a rate limit; candidates
\* are left unvisited.
C5_Witness ==
    /\ fpc = "exited"
    /\ fRateLimited = MAX_FAILED_INVITES
    /\ fPosts = MAX_FAILED_INVITES
    /\ newFollowers # <<>>

\* ================================================ inviteManager.js: claims
\* C11: an inviteUser call for a login that is in this.invitedUsers when the
\* call begins returns false, calls neither users.getByUsername nor
\* orgs.createInvitation, and leaves the Set, the stats and both data files
\* as they were.
C11_KnownUserSkipped ==
    mLast.known =>
        (~mLast.ret /\ ~mLast.lookup /\ ~mLast.create /\ ~mLast.changed)

\* The search page lists bob twice: the first call invited him, the second
\* found him in the Set.
C11_Witness ==
    /\ mLast.known
    /\ mLast.user = "bob"
    /\ mInvitedCount = 1
    /\ mSent[mRun] = {"bob"}

\* ==================================================== dispatch: claims II
\* C12: an inviteUser call that fails with an error other than a rate limit
\* does not end the run: whenever the process has exited with candidates
\* unvisited or not, the call that ended it was answered with a rate limit.
C12_OtherErrorNeverStopsRun ==
    fpc = "exited" => fLast.out = "rateLimit"

\* C13: at every budget check the counter compared with the limit
\* (last24Hours after the reset of canSendMoreInvites) is the number of
\* invitations accepted in the 24 hours before the check.
C13_CounterIsTrailingDay ==
    fLast.checked => fLast.counter = fLast.sent24

\* C14: once inviteUser has returned true, and until the next candidate is
\* attempted, invitation_log.txt holds a line for the invited login and
\* invitation_stats.json holds the stats that are in memory.
C14_SuccessIsPersisted ==
    fLast.ret =>
        /\ \E i \in 1..Len(invitationLog) : invitationLog[i].user = fLast.user
        /\ statsFile = StringifyInvitationStats(invitationStats)

\* ==================================================== discovery: claims
NoDuplicates(list) ==
    \A i, j \in 1..Len(list) : list[i] = list[j] => i = j

\* C15: the list a discovery function returns names no login twice.
C15_DiscoveryReturnsNoDuplicates ==
    dpc = "returned" => NoDuplicates(allUsers)

\* C16 as stated: in makeApiCall's page loop and in searchUsersByKeyword
\* (js), after a page request answered with a rate limit the discoverer is
\* still running on the same page number with the logins it had.
C16_RateLimitRetriesSamePage ==
    (dFn \in {"scanMembers", "searchJs"} /\ dLast.kind = "rateLimit") =>
        (dpc = "run" /\ dPage = dLast.page /\ allUsers = dLast.had)

\* C16 amended: a rate limit never advances the page nor drops a login;
\* makeApiCall always asks again; searchUsersByKeyword asks again while
\* fewer than maxRetries rate limits in a row were met on the page, and at
\* the next one stops and returns what it has.
C16_RateLimitRetriesUpToMax ==
    /\ retryCount <= maxRetries
    /\ (dFn \in {"scanMembers", "searchJs"} /\ dLast.kind = "rateLimit") =>
          /\ dPage = dLast.page
          /\ allUsers = dLast.had
          /\ dFn = "scanMembers" => dpc = "run"
          /\ (dFn = "searchJs" /\ dLast.retries < maxRetries) =>
                 (dpc = "run" /\ retryCount = dLast.retries + 1)
          /\ (dFn = "searchJs" /\ dLast.retries >= maxRetries) => dpc = "returned"

\* Page 2 of the search was answered with a rate limit for the third time
\* in a row and is about to be asked again.
C16_Witness ==
    /\ dFn = "searchJs"
    /\ dLast.kind = "rateLimit"
    /\ dpc = "run"
    /\ dPage = 2
    /\ retryCount = maxRetries
    /\ allUsers # <<>>

\* C17: in getFollowers (js, mjs) and getOrgMembers (js), a page request
\* answered with an error that is not a rate limit ends the discovery, which
\* returns the logins of the earlier pages; the process is not ended.
C17_DiscoveryErrorReturnsPartial ==
    (dFn \in {"getFollowersJs", "getFollowersMjs", "getOrgMembersJs"}
        /\ dLast.kind = "error") =>
        (dpc = "returned" /\ allUsers = dLast.had)

\* C18: searchUsersByKeyword (js) requests no page beyond page 10, consumes
\* at most 10 answered pages of at most per_page = 100 logins each, and so
\* returns at most 1000 logins, whatever total_count is and with
\* getAllUsers set or not.
C18_SearchStopsAtPageTen ==
    dFn = "searchJs" =>
        /\ \A p \in dRequested : p <= MaxSearchPages
        /\ dPage <= MaxSearchPages
        /\ dOkPages <= MaxSearchPages
        /\ Len(allUsers) <= dOkPages * PerPage
        /\ totalResults <= MaxSearchPages * PerPage

\* getAllUsers set, total_count above the cap, ten pages answered: the
\* search has returned after page 10.
C18_Witness ==
    /\ dFn = "searchJs"
    /\ getAllUsers
    /\ dpc = "returned"
    /\ dLast.kind = "ok"
    /\ dLast.page = MaxSearchPages
    /\ dOkPages = MaxSearchPages
    /\ totalResults = MaxSearchPages * PerPage

C20_MissingEnvExits ==
    /\ EnvMissing(mEnv) =>
          /\ ~mApi
          /\ mRun > 0 => (mpc = "down" /\ mExit = Exited("1", "missingEnv"))
    /\ EnvMissing(fEnv) =>
          /\ ~fApi
          /\ fpc # "boot" => (fpc = "exited" /\ fExit = "1")

\* C20 (amended): inviteManager.js without the access token or without the
\* organization name, and the inviteFollowers scripts without the access
\* token, never send an API request, and once the process has run its
\* start-up it has printed the message about the missing setting and
\* exited with code 1.
C20_MissingEnvExitsBeforeApi ==
    /\ (~mEnv.token \/ ~mEnv.org) =>
          /\ ~mApi
          /\ \A r \in 1..MaxRuns : mSent[r] = {}
          /\ mRun > 0 => (mpc = "down" /\ mExit = Exited("1", "missingEnv"))
    /\ ~fEnv.token =>
          /\ ~fApi
          /\ fPosts = 0
          /\ fpc # "boot" => (fpc = "exited" /\ fExit = "1")

\* inviteManager.js was started with a token but no organization name and
\* has ended with code 1 without a request.
C20_Witness ==
    /\ mEnv = [token |-> TRUE, org |-> FALSE]
    /\ mRun = 1
    /\ mExit = Exited("1", "missingEnv")
    /\ ~mApi

\* The usernames of the persisted ledger.
Persisted(file) == IF JsonParses(file) THEN OwnKeys(JsonParse(file).invited_users) ELSE {}

\* C21: with two instances on one ledger file, the file is always the text
\* of the in-memory ledger of the instance that wrote last (the last write
\* wins, whatever the other instance had recorded), and as long as only one
\* instance has recorded usernames every one of them is in the file.
C21_LastWriteWins ==
    /\ rWriter \in Instances => rFile = Stringify(rMem[rWriter])
    /\ \A i \in Instances :
          (\A j \in Instances \ {i} : rTracked[j] = {}) =>
              rTracked[i] \subseteq Persisted(rFile)

\* Both instances loaded the ledger, each recorded a different new
\* username, and the persisted ledger lacks one of the two.
C21_Witness ==
    /\ rTracked["A"] = {"alice"}
    /\ rTracked["B"] = {"bob"}
    /\ "bob" \in Persisted(rFile)
    /\ "alice" \notin Persisted(rFile)

\* C22: in inviteFollowers.js a username that an earlier run invited and
\* appendToLog wrote to the log is in the set getPreviouslyInvitedUsers
\* returns in a later run, and no invitation request is sent for it again.
C22_LoggedUserNotInvitedAgain ==
    /\ fpc = "loop" => fLoggedEarlier \subseteq previouslyInvited
    /\ fLast.posted => fLast.user \notin fLoggedEarlier

\* C23: after cleanupLogFile the log holds exactly the lines recorded within
\* the last 24 hours, in their original order; only lines more than 24
\* hours old are removed.
C23_CleanupKeepsLastDay ==
    cpc = "cleaned" =>
        cLog = SelectSeq(cBefore, LAMBDA line : cNow - line.recorded <= OneDay)

\* C24: when the log loop of inviteUser has logged the invitation, on the
\* primary path or on the fallback path and whatever attempts failed
\* before, the log is the log as it was with exactly one line added at its
\* end, the line of this invitation.
C24_AppendAddsOneLine ==
    (apc = "logging" /\ aSuccess) =>
        /\ Len(aLog) = Len(aBefore) + 1
        /\ SubSeq(aLog, 1, Len(aBefore)) = aBefore
        /\ aLog[Len(aLog)].user = aUser
        /\ aLog[Len(aLog)].source = SourceUsername

\* C25: in inviteUsers, once an invitation attempt of the run has failed
\* with a rate limit error, no later candidate of that run is attempted (no
\* further inviteUser call reaches the API).
C25_RateLimitStopsLoop ==
    [][(mpc = "loop" /\ mLast.rateLimit /\ mLast.run = mRun) =>
          ~(mpc' = "loop" /\ mQueue # <<>> /\ mQueue' = Tail(mQueue) /\ mLast'.lookup)]_vars

\* C26: importFromLog never overwrites and is idempotent: an import leaves
\* every entry that was in the ledger as it was (invited_at and source
\* term), and importing the same log once more after it changes neither
\* the entries nor total_invites.
C26_ImportIdempotent ==
    [][(lpc = "up" /\ lpc' = "up" /\ lastCall'.op = "importFromLog"
        /\ invitedUsers'.shape = "ok") =>
          /\ \A u \in OwnKeys(invitedUsers.invited_users) :
                /\ HasOwn(invitedUsers'.invited_users, u)
                /\ EntryOf(invitedUsers'.invited_users, u) = EntryOf(invitedUsers.invited_users, u)
          /\ ImportLines(invitedUsers', logFile) = invitedUsers'
          /\ (lastCall.op = "importFromLog" /\ ~lastCall.threw) =>
                invitedUsers' = invitedUsers]_vars

\* alice was recorded by trackInvite with the term search-X, the log has a
\* line for alice with another term, and an import that completed found
\* nothing to add.
C26_Witness ==
    /\ lpc = "up"
    /\ lastCall.op = "importFromLog" /\ ~lastCall.threw /\ ~lastCall.mutated
    /\ \E i \in 1..Len(logFile) : logFile[i].matches /\ logFile[i].user = "alice"
                                   /\ logFile[i].term = "unknown"
    /\ HasOwn(invitedUsers.invited_users, "alice")
    /\ EntryOf(invitedUsers.invited_users, "alice").search_term = "search-X"
    /\ invitedUsers.total_invites = 1

C28_TotalsAgree ==
    (mpc = "loop" /\ mRun = 1 /\ mStats.shape = "ok") =>
        /\ mStats.totalInvites = Len(mInvited)
        /\ mStats.totalInvites = SumOver(mStats.searchTerms, DOMAIN mStats.searchTerms)

\* C29: within one dispatch run the POST /invitations requests are for
\* pairwise different usernames: there are as many requests as usernames
\* requested, also when the discovery result names a username twice.
C29_OneRequestPerUser == fPosts = Cardinality(fPosted)

\* The turns the loop of searchUsersByKeyword (js) can still take: each
\* page from the current one up to page 10 asked once and retried
\* maxRetries times, less the retries already spent on the current page.
TurnsLeft(pc, page, retries) ==
    IF pc = "run"
    THEN 1 + (MaxSearchPages - page) * (maxRetries + 1) + (maxRetries - retries)
    ELSE 0

\* C30: searchUsersByKeyword (js) always terminates.  Every call returns,
\* and every turn of its loop strictly lowers a measure that is never
\* negative: the turns left when each remaining page up to page 10 is asked
\* once and retried maxRetries times.  A successful page leaves the retry
\* counter at 0, the counter never exceeds maxRetries, and the rate limit
\* that meets the counter at maxRetries (the fourth in a row, after 3
\* retries) ends the search, which returns the logins it had accumulated.
C30_SearchTerminates ==
    /\ <>(dFn = "searchJs" => dpc = "returned")
    /\ [][dFn = "searchJs" =>
            /\ TurnsLeft(dpc', dPage', retryCount') >= 0
            /\ TurnsLeft(dpc', dPage', retryCount') < TurnsLeft(dpc, dPage, retryCount)]_vars
    /\ [](dFn = "searchJs" =>
            /\ dpc \in {"run", "returned"}
            /\ retryCount <= maxRetries
            /\ dLast.kind = "ok" => retryCount = 0
            /\ (dLast.kind = "rateLimit" /\ dLast.retries = maxRetries) =>
                   (dpc = "returned" /\ allUsers = dLast.had)
            /\ (dpc = "returned" /\ dLast.kind # "ok") => allUsers = dLast.had)

\* Every request of a search was answered with a rate limit: page 1 was
\* asked four times (3 retries) and the search has returned no login.
C30_Witness ==
    /\ dFn = "searchJs"
    /\ dpc = "returned"
    /\ dOkPages = 0
    /\ dRequested = {1}
    /\ dLast.kind = "rateLimit"
    /\ dLast.retries = maxRetries
    /\ retryCount = maxRetries
    /\ allUsers = <<>>

====
